---- MODULE Spec2Model ----
(***************************************************************************)
(* Model of the cache subsystem of ruoyi-framework (src/cache).            *)
(*                                                                         *)
(* Part 1: the process-wide cache registry of global_cache.rs: the two     *)
(* atomic flags INITIALIZED and INITIALIZING, the set-once slot            *)
(* GLOBAL_CACHE, and the operations init_global_cache_async,               *)
(* get_global_cache and reset_global_cache, run by concurrent tasks.       *)
(* Every atomic load, store and compare-exchange of a shared flag is one   *)
(* step; code between two shared accesses of a task is part of the step    *)
(* of the access before it.                                                *)
(*                                                                         *)
(* Error messages are the source's messages rendered in ASCII; the source  *)
(* line of each is given in its comment.                                   *)
(***************************************************************************)
EXTENDS Integers, Sequences, FiniteSets

(* ------------------------------ bounds -------------------------------- *)

\* number of concurrent tasks calling the registry
NumTasks == 2

\* total number of backend constructions (init_cache_by_type calls) in one behaviour
MaxBuilds == 3

Tasks == 1..NumTasks

(* --------------------------- error values ----------------------------- *)

\* CacheError (error.rs:10-23): a kind and a message
Err(kind, msg) == [tag |-> "Err", kind |-> kind, msg |-> msg]

IsErr(r) == r.tag = "Err"

\* impl Display for CacheError (error.rs:25-36): a prefix by kind, then the message
Display(e) ==
    CASE e.kind = "Redis"           -> "Redis error: " \o e.msg
      [] e.kind = "Serialization"   -> "serialization error: " \o e.msg
      [] e.kind = "Deserialization" -> "deserialization error: " \o e.msg
      [] e.kind = "Connection"      -> "connection error: " \o e.msg
      [] e.kind = "Configuration"   -> "configuration error: " \o e.msg
      [] OTHER                      -> "cache error: " \o e.msg

\* From<RedisError> giving the Connection kind
FromRedisErrorAsConnection(text) == [tag |-> "Err", kind |-> "Connection", msg |-> text]

\* impl From<redis::RedisError> for CacheError (error.rs:40-44)
FromRedisError(text) == Err("Redis", text)

\* Ok(()) of CacheResult<()>
OkUnit == [tag |-> "Ok"]

\* Ok(handle) of CacheResult<Arc<dyn CacheBase>>
OkCache(h) == [tag |-> "OkCache", cache |-> h]

IsOkCache(r) == r.tag = "OkCache"

\* no value: a task outside a call, an empty set-once slot
None == [tag |-> "None"]

(* ----------------------------- settings ------------------------------- *)

\* CacheType (config/cache.rs:13-20)
CacheType == {"Local", "Redis", "Multi"}

\* RedisConnectionType (redis_cache.rs:84-89)
RedisConnectionType == {"Standalone", "Cluster"}

\* CacheSettings (config/cache.rs:30-50) with the fields of LocalCacheConfig,
\* RedisConfig and MultiLevelCacheConfig that registry initialization reads:
\*   local_name            LocalCacheConfig.name ("" is the empty name)
\*   url, hosts            RedisConfig.url / hosts: "None" or "Some"
\*   connection_type       RedisConfig.connection_type
\*   fallback_to_local     MultiLevelCacheConfig.fallback_to_local
SettingsSet ==
    [enabled : BOOLEAN,
     cache_type : CacheType,
     local_name : {"", "local"},
     connection_type : RedisConnectionType,
     url : {"None", "Some"},
     hosts : {"None", "Some"},
     fallback_to_local : BOOLEAN]

(* ------------------------------- state -------------------------------- *)

VARIABLES
    INITIALIZED,    \* static INITIALIZED: AtomicBool (global_cache.rs:18)
    INITIALIZING,   \* static INITIALIZING: AtomicBool (global_cache.rs:19)
    GLOBAL_CACHE,   \* static GLOBAL_CACHE: OnceCell (global_cache.rs:24): None or a handle
    built,          \* the results of the init_cache_by_type calls made so far, in order
    given,          \* the settings values the callers of this run hold
    pc,             \* pc[t]: where task t is in the call it makes
    path,           \* path[t]: the branch the call of t took
    settings,       \* settings[t]: the argument of the init call of t, while it is in use
    result,         \* result[t]: the local `result` of the init call of t
    ret             \* ret[t]: the value the call of t returned

VARIABLES
    cache,          \* LocalCache.cache (local_cache.rs:63): the plain entries, key -> bytes
    hash_cache,     \* LocalCache.hash_cache (local_cache.rs:65): key -> (field -> bytes)
    redis,          \* the Redis server's string keys: key -> text
    redis_hash,     \* the Redis server's hash keys: key -> (field -> text)
    multi,          \* the MultiLevelCache instance of the process (multi_level_cache.rs:54-63), None before it exists
    op              \* the cache call made last: its name, arguments and outcome

VARIABLES
    logged,         \* the RedisConfig of the last RedisCache::new that wrote its connection target to the log, and the text it wrote (redis_cache.rs:172-175)
    time            \* the age of the entries written by set_ex: time.local[k] for the plain Local entry of k, time.remote[k] for the Redis key k

VARIABLES
    dash,           \* LocalCache.hash_cache under concurrent calls: the inner maps allocated (heap), the outer map key -> inner map (outer), the tasks that hold a guard of the outer map (guards)
    task,           \* task[t]: the LocalCache call task t is in, where it is in its body, and its locals
    mgr             \* a cache manager: its settings, its slot (the field `cache`), the LocalCache instances and the Redis server behind the handles it gave out, the handle of each task, the backends constructed, the value written last

\* the concurrent callers of one LocalCache or of one cache manager
conc == <<dash, task, mgr>>

vars == <<INITIALIZED, INITIALIZING, GLOBAL_CACHE, built, given,
          pc, path, settings, result, ret,
          cache, hash_cache, redis, redis_hash, multi, op, logged, time, dash, task, mgr>>

\* the state of the cache tiers, their log, their clock and their callers
tiers == <<cache, hash_cache, redis, redis_hash, multi, op, logged, time, dash, task, mgr>>

registry == <<INITIALIZED, INITIALIZING, GLOBAL_CACHE>>

(* ----------------------- backend construction ------------------------ *)

\* a cache handle (Arc<dyn CacheBase>): the identity of the constructed backend
\* (id: the ordinal of the construction that made it), its kind, and for a
\* multi-level cache whether it runs without its Redis tier
Handle(id, kind, fallback) == [id |-> id, kind |-> kind, is_fallback_mode |-> fallback]

\* RedisCache::new (redis_cache.rs:127-210). `up` is the environment: whether the
\* Redis server answers the connection attempt of ConnectionManager::new.
\* A cluster client is built without connecting.
RedisCache_new(config, up) ==
    IF config.connection_type = "Standalone"
    THEN IF config.url = "None"
         THEN Err("Configuration", "Redis standalone mode requires the url setting")
         ELSE IF up THEN OkUnit
                    ELSE FromRedisError("Connection refused (os error 111)")
    ELSE IF config.hosts = "None"
         THEN Err("Configuration", "Redis cluster mode requires the hosts setting")
         ELSE OkUnit

\* RedisCacheManager::get_cache on a manager that was just created
\* (redis_cache.rs:560-580): the slot is empty, so RedisCache::new runs
RedisCacheManager_get_cache(config, up) == RedisCache_new(config, up)

\* MultiLevelCache::new going on without the Redis tier whatever
\* fallback_to_local says
MultiLevelCache_new_fallback_always(config, up) ==
    LET redis_result == RedisCacheManager_get_cache(config, up) IN
    IF ~IsErr(redis_result)
    THEN [tag |-> "Ok", redis_cache |-> "Some", is_fallback |-> FALSE]
    ELSE [tag |-> "Ok", redis_cache |-> "None", is_fallback |-> TRUE]

\* MultiLevelCache::new (multi_level_cache.rs:66-97): Ok with the Redis tier
\* (redis_cache: "Some" or "None") and the fallback flag, or the error of the
\* Redis tier
MultiLevelCache_new(config, up) ==
    LET redis_result == RedisCacheManager_get_cache(config, up) IN
    IF ~IsErr(redis_result)
    THEN [tag |-> "Ok", redis_cache |-> "Some", is_fallback |-> FALSE]
    ELSE IF config.fallback_to_local
         THEN [tag |-> "Ok", redis_cache |-> "None", is_fallback |-> TRUE]
         ELSE redis_result

\* init_cache_by_type (global_cache.rs:113-153); id names the new instance
init_cache_by_type(s, up, id) ==
    CASE s.cache_type = "Local" ->
            OkCache(Handle(id, "Local", FALSE))
      [] s.cache_type = "Redis" ->
            LET r == RedisCacheManager_get_cache(s, up) IN
            IF IsErr(r)
            THEN Err("Connection", "Redis connection failed: " \o Display(r))
            ELSE OkCache(Handle(id, "Redis", FALSE))
      [] OTHER ->
            LET r == MultiLevelCache_new(s, up) IN
            IF IsErr(r) THEN r
            ELSE OkCache(Handle(id, "Multi", r.is_fallback))

(* ------------------- init_global_cache_async: checks ------------------- *)

\* is_global_cache_initialized (global_cache.rs:185-187)
is_global_cache_initialized == INITIALIZED

\* Validate with the sub-configuration of the kind checked before `enabled`
ValidateKindFirst(s) ==
    CASE s.cache_type = "Local" /\ s.local_name = "" ->
            Err("Configuration", "local cache configuration not provided")
      [] s.cache_type = "Redis" /\ s.url = "None" ->
            Err("Configuration", "Redis cache configuration not provided")
      [] s.cache_type = "Multi" /\ s.local_name = "" ->
            Err("Configuration", "multi-level cache lacks local cache configuration")
      [] s.cache_type = "Multi" /\ s.url = "None" ->
            Err("Configuration", "multi-level cache lacks Redis cache configuration")
      [] OTHER ->
            IF ~s.enabled
            THEN Err("Configuration", "please enable the cache in the configuration")
            ELSE OkUnit

\* Validate with the Multi kind checking only its Redis half
ValidateMultiRedisOnly(s) ==
    IF ~s.enabled
    THEN Err("Configuration", "please enable the cache in the configuration")
    ELSE CASE s.cache_type = "Local" /\ s.local_name = "" ->
                 Err("Configuration", "local cache configuration not provided")
           [] s.cache_type = "Redis" /\ s.url = "None" ->
                 Err("Configuration", "Redis cache configuration not provided")
           [] s.cache_type = "Multi" /\ s.url = "None" ->
                 Err("Configuration", "multi-level cache lacks Redis cache configuration")
           [] OTHER -> OkUnit

\* the settings checks of init_global_cache_async (global_cache.rs:37-68):
\* the error it returns, or OkUnit when every check passes
Validate(s) ==
    IF ~s.enabled
    THEN Err("Configuration", "please enable the cache in the configuration")
    ELSE CASE s.cache_type = "Local" ->
                 IF s.local_name = ""
                 THEN Err("Configuration", "local cache configuration not provided")
                 ELSE OkUnit
           [] s.cache_type = "Redis" ->
                 IF s.url = "None"
                 THEN Err("Configuration", "Redis cache configuration not provided")
                 ELSE OkUnit
           [] OTHER ->
                 IF s.local_name = ""
                 THEN Err("Configuration", "multi-level cache lacks local cache configuration")
                 ELSE IF s.url = "None"
                 THEN Err("Configuration", "multi-level cache lacks Redis cache configuration")
                 ELSE OkUnit

\* the error of a caller that waited for another caller's attempt and found the
\* registry not initialized afterwards (global_cache.rs:83)
ErrInitFailed == Err("Other", "global cache initialization failed")

\* the error of a caller whose OnceCell::set was refused (global_cache.rs:97)
ErrSetFailed == Err("Other", "setting the global cache instance failed")

\* the errors of get_global_cache (global_cache.rs:194, 201)
ErrNotInitialized == Err("Other", "global cache is not initialized yet")

ErrNotProperlyInitialized == Err("Other", "global cache is not properly initialized yet")

(* -------------------------------- Init -------------------------------- *)

\* the settings that pass every check of init_global_cache_async
ValidSettings == {s \in SettingsSet : ~IsErr(Validate(s))}

\* no cache call was made yet
NoOp ==
    [name |-> "none", key |-> "-", field |-> "-", typ |-> "-", value |-> None,
     up |-> TRUE, result |-> OkUnit, remote |-> <<>>]

\* no handle: the empty slot of a manager, a task that has not got a cache
NoHandle == [local |-> 0, redis_cache |-> "-"]

\* no manager constructed yet
NoManager ==
    [config |-> [tag |-> "None"], cell |-> NoHandle, stores |-> <<>>, server |-> <<>>,
     handle |-> [t \in Tasks |-> NoHandle], constructed |-> 0,
     wrote |-> [tag |-> "None"]]

\* a task that has not called the LocalCache: no call, no locals (arc: the
\* inner map it holds, 0 for none; current: the counter value it read)
NoTask == [at |-> "idle", name |-> "none", field |-> "-", value |-> <<>>,
           arc |-> 0, current |-> 0, result |-> [tag |-> "None"]]

\* nothing was logged yet: no url, no password, no db, no text (an Option is a
\* sequence with no element or with one)
NoLog == [url |-> <<>>, password |-> <<>>, db |-> <<>>, text |-> <<>>]

\* process start: both flags false, the slot empty, every task outside a call,
\* no cache instance, both stores empty
InitWith(g) ==
    /\ INITIALIZED = FALSE
    /\ INITIALIZING = FALSE
    /\ GLOBAL_CACHE = None
    /\ built = <<>>
    /\ given = g
    /\ pc = [t \in Tasks |-> "idle"]
    /\ path = [t \in Tasks |-> "none"]
    /\ settings = [t \in Tasks |-> None]
    /\ result = [t \in Tasks |-> None]
    /\ ret = [t \in Tasks |-> None]
    /\ cache = <<>>
    /\ hash_cache = <<>>
    /\ redis = <<>>
    /\ redis_hash = <<>>
    /\ multi = None
    /\ op = NoOp
    /\ logged = NoLog
    /\ time = [local |-> <<>>, remote |-> <<>>]
    /\ dash = [heap |-> <<>>, outer |-> <<>>, guards |-> {}]
    /\ task = [t \in Tasks |-> NoTask]
    /\ mgr = NoManager

\* the settings with the Redis topology of RedisConfig::default
\* (redis_cache.rs:97-112): standalone, no host list
StandaloneSettings ==
    {s \in SettingsSet : s.connection_type = "Standalone" /\ s.hosts = "None"}

\* callers may pass any of these settings
Init == InitWith(StandaloneSettings)

\* every caller of the run passes the same valid settings
InitSame == \E s \in ValidSettings \cap StandaloneSettings : InitWith({s})

(* ---------------------- init_global_cache_async ----------------------- *)

\* EntryChecks with the settings checks made before the initialized check
EntryChecksValidateFirst(initialized, s) ==
    IF IsErr(Validate(s))
    THEN [returns |-> TRUE, value |-> Validate(s)]
    ELSE IF initialized
         THEN [returns |-> TRUE, value |-> OkUnit]
         ELSE [returns |-> FALSE, value |-> None]

\* global_cache.rs:32-68, the part of the call before the compare-exchange:
\* the value the call returns there, if it returns
EntryChecks(initialized, s) ==
    IF initialized
    THEN [returns |-> TRUE, value |-> OkUnit]
    ELSE IF IsErr(Validate(s))
         THEN [returns |-> TRUE, value |-> Validate(s)]
         ELSE [returns |-> FALSE, value |-> None]

\* a task calls init_global_cache_async(s): the load of INITIALIZED and the
\* settings checks (global_cache.rs:31-68)
InitEntry(t) ==
    /\ pc[t] = "idle"
    /\ Len(built) + Cardinality({u \in Tasks : pc[u] \in {"cas", "build"}}) < MaxBuilds
    /\ \E s \in given :
          LET e == EntryChecks(is_global_cache_initialized, s) IN
          /\ settings' = [settings EXCEPT ![t] = s]
          /\ IF e.returns
             THEN /\ pc' = [pc EXCEPT ![t] = "init_ret"]
                  /\ path' = [path EXCEPT ![t] = IF IsErr(e.value) THEN "rejected" ELSE "ignored"]
                  /\ ret' = [ret EXCEPT ![t] = e.value]
             ELSE /\ pc' = [pc EXCEPT ![t] = "cas"]
                  /\ path' = [path EXCEPT ![t] = "checked"]
                  /\ ret' = ret
    /\ UNCHANGED <<tiers, registry, built, given, result>>

\* a compare-exchange that succeeds whatever the flag holds
CasAlwaysWins(t) ==
    /\ pc[t] = "cas"
    /\ INITIALIZING' = TRUE
    /\ pc' = [pc EXCEPT ![t] = "build"]
    /\ path' = [path EXCEPT ![t] = "winner"]
    /\ UNCHANGED <<tiers, INITIALIZED, GLOBAL_CACHE, built, given, settings, result, ret>>

\* INITIALIZING.compare_exchange(false, true) (global_cache.rs:71-74); a caller
\* that loses it does not read its settings again
Cas(t) ==
    /\ pc[t] = "cas"
    /\ IF INITIALIZING = FALSE
       THEN /\ INITIALIZING' = TRUE
            /\ pc' = [pc EXCEPT ![t] = "build"]
            /\ path' = [path EXCEPT ![t] = "winner"]
            /\ settings' = settings
       ELSE /\ INITIALIZING' = INITIALIZING
            /\ pc' = [pc EXCEPT ![t] = "poll"]
            /\ path' = [path EXCEPT ![t] = "poller"]
            /\ settings' = [settings EXCEPT ![t] = None]
    /\ UNCHANGED <<tiers, INITIALIZED, GLOBAL_CACHE, built, given, result, ret>>

\* the loop condition, first operand: INITIALIZING.load (global_cache.rs:76)
PollInitializing(t) ==
    /\ pc[t] = "poll"
    /\ pc' = [pc EXCEPT ![t] = IF INITIALIZING THEN "poll_initialized" ELSE "poll_exit"]
    /\ UNCHANGED <<tiers, registry, built, given, path, settings, result, ret>>

\* the loop condition, second operand: !is_global_cache_initialized(), then the
\* sleep and the next round (global_cache.rs:76-78)
PollInitialized(t) ==
    /\ pc[t] = "poll_initialized"
    /\ pc' = [pc EXCEPT ![t] = IF ~is_global_cache_initialized THEN "poll" ELSE "poll_exit"]
    /\ UNCHANGED <<tiers, registry, built, given, path, settings, result, ret>>

\* PollExit handing the waiting caller the error of the attempt it waited for
PollExitSameError(t) ==
    /\ pc[t] = "poll_exit"
    /\ ret' = [ret EXCEPT ![t] =
                  IF INITIALIZED THEN OkUnit
                  ELSE IF built # <<>> /\ IsErr(built[Len(built)])
                       THEN built[Len(built)]
                       ELSE ErrInitFailed]
    /\ pc' = [pc EXCEPT ![t] = "init_ret"]
    /\ UNCHANGED <<tiers, registry, built, given, path, settings, result>>

\* after the loop: Ok if initialized, else the fixed error (global_cache.rs:80-84)
PollExit(t) ==
    /\ pc[t] = "poll_exit"
    /\ ret' = [ret EXCEPT ![t] = IF is_global_cache_initialized THEN OkUnit ELSE ErrInitFailed]
    /\ pc' = [pc EXCEPT ![t] = "init_ret"]
    /\ UNCHANGED <<tiers, registry, built, given, path, settings, result>>

\* init_cache_by_type(settings).await (global_cache.rs:88, 100-103); the
\* settings are not read after it, except by a log line
Build(t) ==
    /\ pc[t] = "build"
    /\ \E up \in BOOLEAN :
          LET r == init_cache_by_type(settings[t], up, Len(built) + 1) IN
          /\ built' = Append(built, r)
          /\ result' = [result EXCEPT ![t] = r]
          /\ pc' = [pc EXCEPT ![t] = IF IsOkCache(r) THEN "publish" ELSE "clear"]
    /\ settings' = [settings EXCEPT ![t] = None]
    /\ UNCHANGED <<tiers, registry, given, path, ret>>

\* Publish into a slot that takes every value it is given
PublishOverwrite(t) ==
    /\ pc[t] = "publish"
    /\ GLOBAL_CACHE' = result[t].cache
    /\ pc' = [pc EXCEPT ![t] = "store_initialized"]
    /\ UNCHANGED <<tiers, INITIALIZED, INITIALIZING, built, given, path, settings, result, ret>>

\* GLOBAL_CACHE.set(cache) (global_cache.rs:89, 95-98): a set-once slot refuses
\* a second value
Publish(t) ==
    /\ pc[t] = "publish"
    /\ IF GLOBAL_CACHE = None
       THEN /\ GLOBAL_CACHE' = result[t].cache
            /\ result' = result
            /\ pc' = [pc EXCEPT ![t] = "store_initialized"]
       ELSE /\ GLOBAL_CACHE' = GLOBAL_CACHE
            /\ result' = [result EXCEPT ![t] = ErrSetFailed]
            /\ pc' = [pc EXCEPT ![t] = "clear"]
    /\ UNCHANGED <<tiers, INITIALIZED, INITIALIZING, built, given, path, settings, ret>>

\* INITIALIZED.store(true) (global_cache.rs:90-93)
StoreInitialized(t) ==
    /\ pc[t] = "store_initialized"
    /\ INITIALIZED' = TRUE
    /\ result' = [result EXCEPT ![t] = OkUnit]
    /\ pc' = [pc EXCEPT ![t] = "clear"]
    /\ UNCHANGED <<tiers, INITIALIZING, GLOBAL_CACHE, built, given, path, settings, ret>>

\* Clear leaving the flag set when the attempt failed
ClearOnSuccessOnly(t) ==
    /\ pc[t] = "clear"
    /\ INITIALIZING' = IF result[t] = OkUnit THEN FALSE ELSE INITIALIZING
    /\ ret' = [ret EXCEPT ![t] = result[t]]
    /\ pc' = [pc EXCEPT ![t] = "init_ret"]
    /\ UNCHANGED <<tiers, INITIALIZED, GLOBAL_CACHE, built, given, path, settings, result>>

\* INITIALIZING.store(false) and the return of result (global_cache.rs:106-109)
Clear(t) ==
    /\ pc[t] = "clear"
    /\ INITIALIZING' = FALSE
    /\ ret' = [ret EXCEPT ![t] = result[t]]
    /\ pc' = [pc EXCEPT ![t] = "init_ret"]
    /\ UNCHANGED <<tiers, INITIALIZED, GLOBAL_CACHE, built, given, path, settings, result>>

(* -------------------------- get_global_cache -------------------------- *)

\* GetEntry without the flag check: the slot alone decides
GetEntryNoFlag(t) ==
    /\ pc[t] = "idle"
    /\ pc' = [pc EXCEPT ![t] = "get_cell"]
    /\ path' = [path EXCEPT ![t] = "get"]
    /\ UNCHANGED <<tiers, registry, built, given, settings, result, ret>>

\* get_global_cache, the flag check (global_cache.rs:192-195)
GetEntry(t) ==
    /\ pc[t] = "idle"
    /\ IF ~is_global_cache_initialized
       THEN /\ ret' = [ret EXCEPT ![t] = ErrNotInitialized]
            /\ pc' = [pc EXCEPT ![t] = "get_ret"]
       ELSE /\ ret' = ret
            /\ pc' = [pc EXCEPT ![t] = "get_cell"]
    /\ path' = [path EXCEPT ![t] = "get"]
    /\ UNCHANGED <<tiers, registry, built, given, settings, result>>

\* GLOBAL_CACHE.get().cloned().ok_or_else(..) (global_cache.rs:198-201)
GetCell(t) ==
    /\ pc[t] = "get_cell"
    /\ ret' = [ret EXCEPT ![t] = IF GLOBAL_CACHE = None
                                  THEN ErrNotProperlyInitialized
                                  ELSE OkCache(GLOBAL_CACHE)]
    /\ pc' = [pc EXCEPT ![t] = "get_ret"]
    /\ UNCHANGED <<tiers, registry, built, given, path, settings, result>>

(* ------------------------- reset_global_cache ------------------------- *)

\* reset_global_cache, first store: INITIALIZED.store(false) (global_cache.rs:208-209)
ResetInitialized(t) ==
    /\ pc[t] = "idle"
    /\ INITIALIZED' = FALSE
    /\ pc' = [pc EXCEPT ![t] = "reset_initializing"]
    /\ path' = [path EXCEPT ![t] = "reset"]
    /\ UNCHANGED <<tiers, INITIALIZING, GLOBAL_CACHE, built, given, settings, result, ret>>

\* reset_global_cache, second store: INITIALIZING.store(false) (global_cache.rs:210-213)
ResetInitializing(t) ==
    /\ pc[t] = "reset_initializing"
    /\ INITIALIZING' = FALSE
    /\ pc' = [pc EXCEPT ![t] = "reset_ret"]
    /\ UNCHANGED <<tiers, INITIALIZED, GLOBAL_CACHE, built, given, path, settings, result, ret>>

(* ------------------------------ the runs ------------------------------ *)

\* the caller takes the returned value; the task is free for its next call
Return(t) ==
    /\ pc[t] \in {"init_ret", "get_ret", "reset_ret"}
    /\ pc' = [pc EXCEPT ![t] = "idle"]
    /\ path' = [path EXCEPT ![t] = "none"]
    /\ settings' = [settings EXCEPT ![t] = None]
    /\ result' = [result EXCEPT ![t] = None]
    /\ ret' = [ret EXCEPT ![t] = None]
    /\ UNCHANGED <<tiers, registry, built, given>>

\* no returned value is waiting to be taken by its caller
Taken == \A u \in Tasks : pc[u] \notin {"init_ret", "get_ret", "reset_ret"}

\* production use: tasks of a multi-worker runtime call init and get at any
\* time, and every step of every call interleaves with the steps of the others.
\* Taking a returned value touches nothing shared, so it is scheduled first.
Next ==
    \E t \in Tasks :
        \/ Taken /\ InitEntry(t)
        \/ Taken /\ Cas(t)
        \/ Taken /\ PollInitializing(t)
        \/ Taken /\ PollInitialized(t)
        \/ Taken /\ PollExit(t)
        \/ Taken /\ Build(t)
        \/ Taken /\ Publish(t)
        \/ Taken /\ StoreInitialized(t)
        \/ Taken /\ Clear(t)
        \/ Taken /\ GetEntry(t)
        \/ Taken /\ GetCell(t)
        \/ Return(t)

Spec == Init /\ [][Next]_vars

\* N callers with identical valid settings
SpecSame == InitSame /\ [][Next]_vars

\* the next step of the call task t is in (every call in progress has one)
CallStep(t) ==
    \/ Taken /\ Cas(t)
    \/ Taken /\ PollInitializing(t)
    \/ Taken /\ PollInitialized(t)
    \/ Taken /\ PollExit(t)
    \/ Taken /\ Build(t)
    \/ Taken /\ Publish(t)
    \/ Taken /\ StoreInitialized(t)
    \/ Taken /\ Clear(t)
    \/ Taken /\ GetCell(t)
    \/ Return(t)

\* the tokio runtime polls every task that can make progress, the sleep of a
\* polling caller (global_cache.rs:77) ends, and init_cache_by_type returns:
\* a call that can take its next step again and again does take it
Fairness == \A t \in Tasks : SF_vars(CallStep(t))

SpecFair == Spec /\ Fairness

\* no other task is inside a call
Alone(t) == \A u \in Tasks \ {t} : pc[u] = "idle"

\* the test modules (global_cache.rs:216-465, tests/global_cache_tests.rs): calls
\* made one after another, with reset_global_cache between them
NextTest ==
    \E t \in Tasks :
        \/ Alone(t) /\ InitEntry(t)
        \/ Alone(t) /\ Cas(t)
        \/ Alone(t) /\ Build(t)
        \/ Alone(t) /\ Publish(t)
        \/ Alone(t) /\ StoreInitialized(t)
        \/ Alone(t) /\ Clear(t)
        \/ Alone(t) /\ GetEntry(t)
        \/ Alone(t) /\ GetCell(t)
        \/ Alone(t) /\ ResetInitialized(t)
        \/ Alone(t) /\ ResetInitializing(t)
        \/ Alone(t) /\ Return(t)

SpecTest == Init /\ [][NextTest]_vars

(* ====================== registry: the properties ====================== *)

\* every construction made so far succeeded
NoBuildFailed == \A i \in DOMAIN built : IsOkCache(built[i])

\* the task's init call has returned and the caller holds its value
InitReturned(t) == pc[t] = "init_ret"

\* C1: when N >= 2 tasks call init_global_cache_async concurrently with
\* identical valid settings, init_cache_by_type runs exactly once in total under
\* every interleaving: never a second time, and once by the time a call has
\* returned. Stated for the runs in which no construction fails (a failed
\* attempt is meant to be retried).
C1_BuiltExactlyOnce ==
    NoBuildFailed =>
        /\ Len(built) <= 1
        /\ (\E t \in Tasks : InitReturned(t)) => Len(built) = 1

\* C2: when N tasks call init_global_cache_async concurrently with identical
\* valid settings whose construction succeeds, every call returns Ok, and
\* get_global_cache gives every caller the same handle, the published one.
C2_AllOkSameHandle ==
    NoBuildFailed =>
        /\ \A t \in Tasks : InitReturned(t) => ret[t] = OkUnit
        /\ \A t \in Tasks :
              (pc[t] = "get_ret" /\ IsOkCache(ret[t])) => ret[t].cache = GLOBAL_CACHE

\* task t takes the first step of an init_global_cache_async call
InitEntryStep(t) == pc[t] = "idle" /\ pc'[t] \in {"init_ret", "cas"}

\* the errors of the constructions that failed so far
BuildErrors == {built[i] : i \in {j \in DOMAIN built : IsErr(built[j])}}

C4_FailureThenRetry ==
    [][\A t \in Tasks :
          /\ (pc[t] = "clear" /\ pc'[t] = "init_ret" /\ result[t] \in BuildErrors)
                => (INITIALIZING' = FALSE /\ INITIALIZED' = FALSE)
          /\ (pc[t] = "publish" /\ pc'[t] # "publish"
                /\ \E i \in 1..(Len(built) - 1) : IsErr(built[i]))
                => pc'[t] = "store_initialized"
          /\ (pc[t] = "store_initialized" /\ pc'[t] = "clear")
                => (result'[t] = OkUnit /\ INITIALIZED')]_vars

\* C5: absent reset, once the registry is Ready it stays Ready: INITIALIZED
\* never becomes false again, the set-once slot is written at most once, and
\* every get_global_cache that reads the slot returns the one published handle,
\* which the first successful publication put there.
C5_ReadyForever ==
    /\ [][/\ INITIALIZED => INITIALIZED'
          /\ GLOBAL_CACHE # None => GLOBAL_CACHE' = GLOBAL_CACHE
          /\ \A t \in Tasks :
                (pc[t] = "get_cell" /\ pc'[t] = "get_ret")
                    => (GLOBAL_CACHE # None /\ ret'[t] = OkCache(GLOBAL_CACHE))]_vars
    /\ [](INITIALIZED => GLOBAL_CACHE # None)
    /\ [](GLOBAL_CACHE # None => OkCache(GLOBAL_CACHE) \in {built[i] : i \in DOMAIN built})

\* C5 witness: Ready, a second backend was constructed and discarded, and a
\* get_global_cache returned the handle of the first
C5_Witness ==
    /\ INITIALIZED
    /\ Len(built) >= 2 /\ NoBuildFailed
    /\ \E t \in Tasks : pc[t] = "get_ret" /\ ret[t] = OkCache(GLOBAL_CACHE)
    /\ GLOBAL_CACHE = built[1].cache

\* C6: get_global_cache while no initialization has succeeded (Uninitialized or
\* Initializing, also after failed attempts) returns the not-initialized error
\* and never a handle.
C6_GetBeforeInit ==
    \A t \in Tasks :
        (pc[t] = "get_ret" /\ ~INITIALIZED) => ret[t] = ErrNotInitialized

\* C6 witness: get_global_cache returned the error after a failed attempt, while
\* another attempt had already filled the slot but not yet set the flag
C6_Witness ==
    \E t \in Tasks :
        /\ pc[t] = "get_ret" /\ ret[t] = ErrNotInitialized
        /\ BuildErrors # {}
        /\ GLOBAL_CACHE # None /\ ~INITIALIZED

\* C7: after a successful initialization followed by reset_global_cache(), a
\* new init_global_cache_async call with valid settings (whose construction
\* succeeds) returns Ok and is_global_cache_initialized() is true.
C7_ReinitAfterReset ==
    \A t \in Tasks :
        (InitReturned(t) /\ path[t] = "winner"
            /\ built # <<>> /\ IsOkCache(built[Len(built)]))
        => (ret[t] = OkUnit /\ is_global_cache_initialized)

\* C8: once the registry is Ready, every further init_global_cache_async call
\* returns Ok whatever its settings are, constructs no backend, and leaves the
\* published handle and both flags unchanged.
C8_IgnoredWhenReady ==
    [][\A t \in Tasks :
          (InitEntryStep(t) /\ INITIALIZED) =>
              /\ pc'[t] = "init_ret"
              /\ ret'[t] = OkUnit
              /\ UNCHANGED <<registry, built>>]_vars

\* C8 witness: a call with enabled=false returned Ok on a Ready registry
C8_Witness ==
    \E t \in Tasks :
        /\ InitReturned(t) /\ path[t] = "ignored" /\ ret[t] = OkUnit
        /\ ~settings[t].enabled
        /\ INITIALIZED

\* C9: on a registry that is not Ready, init_global_cache_async with
\* enabled=false returns the Configuration error saying the cache must be
\* enabled, whatever the kind and the sub-configurations are; no backend is
\* constructed and the registry is left as it was.
C9_DisabledRejected ==
    [][\A t \in Tasks :
          (InitEntryStep(t) /\ ~INITIALIZED /\ ~settings'[t].enabled) =>
              /\ pc'[t] = "init_ret"
              /\ ret'[t] = Err("Configuration", "please enable the cache in the configuration")
              /\ UNCHANGED <<registry, built>>]_vars

\* C9 witness: a disabled Multi configuration without its sub-configurations
\* was rejected with the enable-the-cache error
C9_Witness ==
    \E t \in Tasks :
        /\ InitReturned(t) /\ path[t] = "rejected"
        /\ ~settings[t].enabled /\ settings[t].cache_type = "Multi"
        /\ settings[t].local_name = "" /\ settings[t].url = "None"
        /\ ret[t] = Err("Configuration", "please enable the cache in the configuration")

\* the settings C10 is about: Local without a name, Multi without a name or
\* without the Redis endpoint
MissingSubConfig(s) ==
    \/ s.cache_type = "Local" /\ s.local_name = ""
    \/ s.cache_type = "Multi" /\ (s.local_name = "" \/ s.url = "None")

\* C10: on a registry that is not Ready, init_global_cache_async with
\* enabled=true returns a Configuration error when kind=Local and local.name is
\* empty, and when kind=Multi and local.name is empty or the Redis endpoint is
\* missing; the call never enters Initializing and leaves both flags unchanged.
C10_MissingConfigRejected ==
    [][\A t \in Tasks :
          (InitEntryStep(t) /\ ~INITIALIZED /\ settings'[t].enabled
              /\ MissingSubConfig(settings'[t])) =>
              /\ pc'[t] = "init_ret"
              /\ IsErr(ret'[t]) /\ ret'[t].kind = "Configuration"
              /\ UNCHANGED <<registry, built>>]_vars

\* C10 witness: an enabled Multi configuration with the endpoint but without a
\* local name was rejected with a Configuration error
C10_Witness ==
    \E t \in Tasks :
        /\ InitReturned(t) /\ path[t] = "rejected"
        /\ settings[t].enabled /\ settings[t].cache_type = "Multi"
        /\ settings[t].local_name = "" /\ settings[t].url = "Some"
        /\ ret[t].kind = "Configuration"

(* ============== registry: the Redis kind and its topology ============= *)

\* the enabled settings of kind Redis, with either topology
RemoteSettings == {s \in SettingsSet : s.enabled /\ s.cache_type = "Redis"}

\* calls made one after another with settings of kind Redis
SpecRemote == InitWith(RemoteSettings) /\ [][NextTest]_vars

\* the address field the topology of s requires is absent: the url for
\* Standalone, the host list for Cluster
AddressMissing(s) ==
    IF s.connection_type = "Standalone" THEN s.url = "None" ELSE s.hosts = "None"

\* task t takes the construction step of its init call
BuildStep(t) == pc[t] = "build" /\ pc'[t] # "build"

\* C11: for kind=Redis, registry initialization fails with a Configuration
\* error exactly when the address field required by the configured topology is
\* absent: the settings checks reject a configuration only when that field is
\* absent (a Cluster configuration with hosts but no url passes them), and the
\* construction fails with a Configuration error exactly when it is absent (a
\* Cluster configuration without hosts is reported as Configuration).
C11_ConfigurationIffAddressMissing ==
    [][\A t \in Tasks :
          /\ (InitEntryStep(t) /\ ~INITIALIZED /\ settings'[t].cache_type = "Redis"
                /\ settings'[t].enabled /\ pc'[t] = "init_ret")
                => AddressMissing(settings'[t])
          /\ (BuildStep(t) /\ settings[t].cache_type = "Redis")
                => ((IsErr(result'[t]) /\ result'[t].kind = "Configuration")
                       <=> AddressMissing(settings[t]))]_vars

(***************************************************************************)
(* Part 2: the cache tiers of one process.  The Local tier (local_cache.rs) *)
(* is a map of plain entries and a nested map of hash entries; the Remote   *)
(* tier (redis_cache.rs) is a Redis server shared with other processes; a   *)
(* MultiLevelCache (multi_level_cache.rs) combines the two.  Calls are made *)
(* one after another by one caller; `op` holds the call made last.          *)
(* Bytes and Redis texts are sequences of one-character strings.            *)
(***************************************************************************)

(* ------------------------------- bounds ------------------------------- *)

\* the largest counter value: counter calls are made while the counters
\* involved are within -MaxCount..MaxCount
MaxCount == 2

\* the keys and hash fields the callers use
Keys == {"k1", "k2"}

Fields == {"f1", "f2"}

\* the key and the field the callers of the multi-level cache use
MultiKeys == {"k1"}

MultiFields == {"f1"}

\* MultiLevelCacheConfig::default, local_ttl in seconds (multi_level_cache.rs:45)
DefaultLocalTtl == 300

\* the ttl arguments of set_ex and expire in seconds: one below and one above local_ttl
Ttls == {DefaultLocalTtl - 1, DefaultLocalTtl + 1}

(* -------------------------------- maps -------------------------------- *)

\* HashMap::insert / moka insert / DashMap::insert: m with key k set to v
Insert(m, k, v) == [x \in DOMAIN m \cup {k} |-> IF x = k THEN v ELSE m[x]]

\* HashMap::remove / moka invalidate / DashMap::remove: m without key k
Remove(m, k) == [x \in DOMAIN m \ {k} |-> m[x]]

\* Some(v) of an Option
Some(v) == [tag |-> "Some", value |-> v]

IsSome(r) == r.tag = "Some"

\* Ok(v) of a CacheResult<i64>, CacheResult<bool> or CacheResult<usize>
Ok(v) == [tag |-> "Ok", value |-> v]

(* ------------------------------- values ------------------------------- *)

\* a value of Rust type String: its characters s
Str(chars) == [type |-> "String", s |-> chars, n |-> 0]

\* a value of Rust type i64: the number n
I64(n) == [type |-> "i64", s |-> <<>>, n |-> n]

\* the types callers store and read
Types == {"String", "i64"}

\* the values callers store: two strings, one of them all digits, and the
\* integer with the same digits
Values == {Str(<<"a">>), Str(<<"1">>), I64(1)}

Digit(d) ==
    CASE d = 0 -> "0" [] d = 1 -> "1" [] d = 2 -> "2" [] d = 3 -> "3" [] d = 4 -> "4"
      [] d = 5 -> "5" [] d = 6 -> "6" [] d = 7 -> "7" [] d = 8 -> "8" [] OTHER -> "9"

DigitChars == {"0", "1", "2", "3", "4", "5", "6", "7", "8", "9"}

DigitValue(c) == CHOOSE d \in 0..9 : Digit(d) = c

RECURSIVE Digits(_)
\* the decimal digits of a natural number
Digits(n) == IF n < 10 THEN <<Digit(n)>> ELSE Digits(n \div 10) \o <<Digit(n % 10)>>

RECURSIVE DigitsValue(_)
\* the natural number a non-empty sequence of digits denotes
DigitsValue(s) ==
    IF Len(s) = 1 THEN DigitValue(s[1])
    ELSE DigitsValue(SubSeq(s, 1, Len(s) - 1)) * 10 + DigitValue(s[Len(s)])

AllDigits(s) == s # <<>> /\ \A i \in DOMAIN s : s[i] \in DigitChars

\* i64::to_string (multi_level_cache.rs:263, local_cache.rs:178)
i64_to_string(n) == IF n < 0 THEN <<"-">> \o Digits(0 - n) ELSE Digits(n)

\* str::parse::<i64> (local_cache.rs:169-171): an optional sign, then digits
parse_i64(s) ==
    LET body == IF s # <<>> /\ s[1] \in {"-", "+"} THEN Tail(s) ELSE s IN
    IF ~AllDigits(body) THEN Err("Deserialization", "invalid digit found in string")
    ELSE IF s[1] = "-" THEN Ok(0 - DigitsValue(body)) ELSE Ok(DigitsValue(body))

\* impl From<serde_json::Error> for CacheError (error.rs:46-50)
FromSerdeError(text) == Err("Serialization", text)

\* to_vec writing a string without its quotes
serde_json_to_vec_raw(value) ==
    IF value.type = "String" THEN value.s ELSE i64_to_string(value.n)

\* serde_json::to_vec / to_string of a String or an i64 (local_cache.rs:109,
\* redis_cache.rs:264): a string in double quotes (the strings stored need no
\* escapes), an integer in decimal
serde_json_to_vec(value) ==
    IF value.type = "String" THEN <<"\"">> \o value.s \o <<"\"">>
    ELSE i64_to_string(value.n)

\* serde_json::from_slice::<T> / from_str::<T> with the `?` of its callers
\* (local_cache.rs:129, redis_cache.rs:315): the value of type T the JSON text
\* denotes, or the error converted to a CacheError
serde_json_from_slice(T, data) ==
    IF T = "String"
    THEN IF /\ Len(data) >= 2
            /\ data[1] = "\"" /\ data[Len(data)] = "\""
            /\ \A i \in 2..(Len(data) - 1) : data[i] \notin {"\"", "\\"}
         THEN Ok(Str(SubSeq(data, 2, Len(data) - 1)))
         ELSE FromSerdeError("invalid type or syntax, expected a string")
    ELSE LET body == IF data # <<>> /\ data[1] = "-" THEN Tail(data) ELSE data IN
         IF AllDigits(body) /\ (Len(body) = 1 \/ body[1] # "0")
         THEN Ok(I64(IF data[1] = "-" THEN 0 - DigitsValue(body) ELSE DigitsValue(body)))
         ELSE FromSerdeError("invalid type or syntax, expected i64")

(* --------------------------- the call record -------------------------- *)

\* the call has not returned: its caller is blocked inside it
Pending == [tag |-> "Pending"]

\* a call: its name, its key, field, type and value arguments ("-" and None
\* where it has none), whether the Redis server answered during it, what it
\* returned (Pending if it did not return) and the Redis commands it issued
Call(name, key, field, typ, value, up, res, remote) ==
    [name |-> name, key |-> key, field |-> field, typ |-> typ, value |-> value,
     up |-> up, result |-> res, remote |-> remote]

\* the caller can make its next call: its last call returned
Free == op.result # Pending

(* ------------------------ LocalCache: operations ---------------------- *)

\* LocalCache::set (local_cache.rs:108-112): the new plain map and the result
LocalCache_set(c, key, value) ==
    [cache |-> Insert(c, key, serde_json_to_vec(value)), result |-> OkUnit]

\* LocalCache::set_ex (local_cache.rs:114-125): the ttl is not used
LocalCache_set_ex(c, key, value, ttl) ==
    [cache |-> Insert(c, key, serde_json_to_vec(value)), result |-> OkUnit]

\* LocalCache::get::<T> (local_cache.rs:127-134)
LocalCache_get(c, T, key) ==
    IF key \in DOMAIN c
    THEN LET r == serde_json_from_slice(T, c[key]) IN
         IF IsErr(r) THEN r ELSE Some(r.value)
    ELSE None

\* del dropping the plain entry only
LocalCache_del_plain_only(c, h, key) ==
    [cache |-> Remove(c, key), hash_cache |-> h, result |-> OkUnit]

\* LocalCache::del (local_cache.rs:147-152): both maps drop the key
LocalCache_del(c, h, key) ==
    [cache |-> Remove(c, key), hash_cache |-> Remove(h, key), result |-> OkUnit]

\* LocalCache::exists (local_cache.rs:154-156)
LocalCache_exists(c, h, key) == Ok(key \in DOMAIN c \/ key \in DOMAIN h)

\* the error of expire on a key without an entry (local_cache.rs:163)
ErrKeyNotFound(key) == Err("Other", "key " \o key \o " does not exist")

\* expire answering Ok whether the key has an entry or not
LocalCache_expire_always_ok(c, h, key, ttl) ==
    [cache |-> c, hash_cache |-> h, result |-> OkUnit]

\* LocalCache::expire (local_cache.rs:158-165): the ttl is not used and nothing
\* is written
LocalCache_expire(c, h, key, ttl) ==
    IF key \in DOMAIN c \/ key \in DOMAIN h
    THEN [cache |-> c, hash_cache |-> h, result |-> OkUnit]
    ELSE [cache |-> c, hash_cache |-> h, result |-> ErrKeyNotFound(key)]

\* LocalCache::hset with get_or_create_hash (local_cache.rs:95-103, 201-216)
LocalCache_hset(h, key, field, value) ==
    LET hash_map == IF key \in DOMAIN h THEN h[key] ELSE <<>> IN
    [hash_cache |-> Insert(h, key, Insert(hash_map, field, serde_json_to_vec(value))),
     result |-> OkUnit]

\* LocalCache::hget::<T> (local_cache.rs:218-232)
LocalCache_hget(h, T, key, field) ==
    IF key \in DOMAIN h /\ field \in DOMAIN h[key]
    THEN LET r == serde_json_from_slice(T, h[key][field]) IN
         IF IsErr(r) THEN r ELSE Some(r.value)
    ELSE None

\* LocalCache::hdel (local_cache.rs:234-245).  `hash_map` is the guard that
\* DashMap::get returned: it holds the read lock of the outer map's shard of
\* key until the end of the `if let` block.  When the inner map is empty after
\* the removal of the field, self.hash_cache.remove(key) (line 240) asks for the
\* write lock of that shard and waits for the guard of its own caller: the call
\* does not return, and the empty inner map stays in the outer map.
LocalCache_hdel(h, key, field) ==
    IF key \in DOMAIN h
    THEN LET hash_map == Remove(h[key], field) IN
         IF DOMAIN hash_map = {}
         THEN [hash_cache |-> Insert(h, key, hash_map), result |-> Pending]
         ELSE [hash_cache |-> Insert(h, key, hash_map), result |-> OkUnit]
    ELSE [hash_cache |-> h, result |-> OkUnit]

\* LocalCache::hexists (local_cache.rs:247-253)
LocalCache_hexists(h, key, field) == Ok(key \in DOMAIN h /\ field \in DOMAIN h[key])

\* LocalCache::hlen (local_cache.rs:267-273)
LocalCache_hlen(h, key) ==
    Ok(IF key \in DOMAIN h THEN Cardinality(DOMAIN h[key]) ELSE 0)

(* ---------------- CacheAdapter: the object-safe facade ---------------- *)

\* CacheAdapter::set_string / set_int over a LocalCache (mod.rs:189-191,
\* 201-203): the value is handed to set as a String or as an i64
CacheAdapter_set(c, key, value) ==
    IF value.type = "String" THEN LocalCache_set(c, key, Str(value.s))
    ELSE LocalCache_set(c, key, I64(value.n))

\* CacheAdapter::get_string / get_int over a LocalCache (mod.rs:197-199, 205-207)
CacheAdapter_get(c, T, key) == LocalCache_get(c, T, key)

(* -------------------------- LocalCache: calls -------------------------- *)

\* the registry and its callers
regs == <<INITIALIZED, INITIALIZING, GLOBAL_CACHE, built, given,
          pc, path, settings, result, ret>>

\* set_string(k, v) / set_int(k, v) through the facade of a LocalCache
LocalSet ==
    /\ Free
    /\ \E k \in Keys, v \in Values :
          LET r == CacheAdapter_set(cache, k, v) IN
          /\ cache' = r.cache
          /\ op' = Call("local.set", k, "-", v.type, v, TRUE, r.result, <<>>)
    /\ UNCHANGED <<regs, conc, logged, time, hash_cache, redis, redis_hash, multi>>

\* get_string(k) / get_int(k) through the facade of a LocalCache
LocalGet ==
    /\ Free
    /\ \E k \in Keys, T \in Types :
          op' = Call("local.get", k, "-", T, None, TRUE, CacheAdapter_get(cache, T, k), <<>>)
    /\ UNCHANGED <<regs, conc, logged, time, cache, hash_cache, redis, redis_hash, multi>>

\* local.del(k)
LocalDel ==
    /\ Free
    /\ \E k \in Keys :
          LET r == LocalCache_del(cache, hash_cache, k) IN
          /\ cache' = r.cache
          /\ hash_cache' = r.hash_cache
          /\ op' = Call("local.del", k, "-", "-", None, TRUE, r.result, <<>>)
    /\ UNCHANGED <<regs, conc, logged, time, redis, redis_hash, multi>>

\* local.exists(k)
LocalExists ==
    /\ Free
    /\ \E k \in Keys :
          op' = Call("local.exists", k, "-", "-", None, TRUE,
                     LocalCache_exists(cache, hash_cache, k), <<>>)
    /\ UNCHANGED <<regs, conc, logged, time, cache, hash_cache, redis, redis_hash, multi>>

\* local.hset(k, f, v)
LocalHset ==
    /\ Free
    /\ \E k \in Keys, f \in Fields, v \in Values :
          LET r == LocalCache_hset(hash_cache, k, f, v) IN
          /\ hash_cache' = r.hash_cache
          /\ op' = Call("local.hset", k, f, v.type, v, TRUE, r.result, <<>>)
    /\ UNCHANGED <<regs, conc, logged, time, cache, redis, redis_hash, multi>>

\* local.hget::<T>(k, f)
LocalHget ==
    /\ Free
    /\ \E k \in Keys, f \in Fields, T \in Types :
          op' = Call("local.hget", k, f, T, None, TRUE,
                     LocalCache_hget(hash_cache, T, k, f), <<>>)
    /\ UNCHANGED <<regs, conc, logged, time, cache, hash_cache, redis, redis_hash, multi>>

\* local.hdel(k, f)
LocalHdel ==
    /\ Free
    /\ \E k \in Keys, f \in Fields :
          LET r == LocalCache_hdel(hash_cache, k, f) IN
          /\ hash_cache' = r.hash_cache
          /\ op' = Call("local.hdel", k, f, "-", None, TRUE, r.result, <<>>)
    /\ UNCHANGED <<regs, conc, logged, time, cache, redis, redis_hash, multi>>

\* local.hexists(k, f)
LocalHexists ==
    /\ Free
    /\ \E k \in Keys, f \in Fields :
          op' = Call("local.hexists", k, f, "-", None, TRUE,
                     LocalCache_hexists(hash_cache, k, f), <<>>)
    /\ UNCHANGED <<regs, conc, logged, time, cache, hash_cache, redis, redis_hash, multi>>

\* local.hlen(k)
LocalHlen ==
    /\ Free
    /\ \E k \in Keys :
          op' = Call("local.hlen", k, "-", "-", None, TRUE,
                     LocalCache_hlen(hash_cache, k), <<>>)
    /\ UNCHANGED <<regs, conc, logged, time, cache, hash_cache, redis, redis_hash, multi>>

\* local.expire(k, ttl)
LocalExpire ==
    /\ Free
    /\ \E k \in Keys, ttl \in Ttls :
          LET r == LocalCache_expire(cache, hash_cache, k, ttl) IN
          /\ cache' = r.cache
          /\ hash_cache' = r.hash_cache
          /\ op' = Call("local.expire", k, "-", "-", None, TRUE, r.result, <<>>)
    /\ UNCHANGED <<regs, conc, logged, time, redis, redis_hash, multi>>

\* the moka cache drops a plain entry: its time_to_live has passed or the
\* capacity policy evicted it (local_cache.rs:73-88)
MokaEvict ==
    /\ Free
    /\ \E k \in DOMAIN cache :
          /\ cache' = Remove(cache, k)
          /\ op' = Call("evict", k, "-", "-", None, TRUE, OkUnit, <<>>)
    /\ UNCHANGED <<regs, conc, logged, time, hash_cache, redis, redis_hash, multi>>

\* one caller uses a LocalCache through its facade, call after call
NextLocal ==
    \/ LocalSet
    \/ LocalGet
    \/ LocalDel
    \/ LocalExists
    \/ LocalHset
    \/ LocalHget
    \/ LocalHdel
    \/ LocalHexists
    \/ LocalHlen
    \/ LocalExpire
    \/ MokaEvict

SpecLocal == InitWith({}) /\ [][NextLocal]_vars

(* ------------------------ RedisCache: operations ---------------------- *)

\* a command that got no answer: the error of RedisCache::execute
\* (redis_cache.rs:235-252) converted by From<RedisError>
RedisDown == FromRedisError("broken pipe")

\* the answer of the server to a command on a key of the other type
WrongType == FromRedisError("WRONGTYPE Operation against a key holding the wrong kind of value")

\* the answer of the server to INCR / DECR on a text that is not an integer
NotAnInteger == FromRedisError("ERR value is not an integer or out of range")

\* the integer the server reads from a string value: a minus sign or none, then
\* digits without a leading zero
redis_integer(text) ==
    LET body == IF text # <<>> /\ text[1] = "-" THEN Tail(text) ELSE text IN
    IF AllDigits(body) /\ (Len(body) = 1 \/ body[1] # "0")
    THEN Ok(IF text[1] = "-" THEN 0 - DigitsValue(body) ELSE DigitsValue(body))
    ELSE NotAnInteger

\* RedisCache::set (redis_cache.rs:263-275): SET replaces a value of any type
RedisCache_set(rs, rh, up, key, value) ==
    IF ~up THEN [redis |-> rs, redis_hash |-> rh, result |-> RedisDown]
    ELSE [redis |-> Insert(rs, key, serde_json_to_vec(value)),
          redis_hash |-> Remove(rh, key), result |-> OkUnit]

\* RedisCache::set_ex (redis_cache.rs:277-299): SETEX; the server drops the key
\* when the ttl has passed
RedisCache_set_ex(rs, rh, up, key, value, ttl) ==
    IF ~up THEN [redis |-> rs, redis_hash |-> rh, result |-> RedisDown]
    ELSE [redis |-> Insert(rs, key, serde_json_to_vec(value)),
          redis_hash |-> Remove(rh, key), result |-> OkUnit]

\* RedisCache::get::<T> (redis_cache.rs:301-320)
RedisCache_get(rs, rh, up, T, key) ==
    IF ~up THEN RedisDown
    ELSE IF key \in DOMAIN rh THEN WrongType
    ELSE IF key \in DOMAIN rs
         THEN LET r == serde_json_from_slice(T, rs[key]) IN
              IF IsErr(r) THEN r ELSE Some(r.value)
         ELSE None

\* RedisCache::incr / decr (redis_cache.rs:381-399): INCR / DECR, delta is 1 or -1
RedisCache_incr(rs, rh, up, key, delta) ==
    IF ~up THEN [redis |-> rs, result |-> RedisDown]
    ELSE IF key \in DOMAIN rh THEN [redis |-> rs, result |-> WrongType]
    ELSE LET current == IF key \in DOMAIN rs THEN redis_integer(rs[key]) ELSE Ok(0) IN
         IF IsErr(current) THEN [redis |-> rs, result |-> current]
         ELSE [redis |-> Insert(rs, key, i64_to_string(current.value + delta)),
               result |-> Ok(current.value + delta)]

\* RedisCache::hset (redis_cache.rs:403-427)
RedisCache_hset(rs, rh, up, key, field, value) ==
    IF ~up THEN [redis_hash |-> rh, result |-> RedisDown]
    ELSE IF key \in DOMAIN rs THEN [redis_hash |-> rh, result |-> WrongType]
    ELSE LET hash_map == IF key \in DOMAIN rh THEN rh[key] ELSE <<>> IN
         [redis_hash |-> Insert(rh, key, Insert(hash_map, field, serde_json_to_vec(value))),
          result |-> OkUnit]

\* RedisCache::hget::<T> (redis_cache.rs:429-452)
RedisCache_hget(rs, rh, up, T, key, field) ==
    IF ~up THEN RedisDown
    ELSE IF key \in DOMAIN rs THEN WrongType
    ELSE IF key \in DOMAIN rh /\ field \in DOMAIN rh[key]
         THEN LET r == serde_json_from_slice(T, rh[key][field]) IN
              IF IsErr(r) THEN r ELSE Some(r.value)
         ELSE None

(* ------------------- LocalCache: the counter operations ---------------- *)

\* incr / decr starting again from zero on a value that is not decimal text
LocalCache_incr_restart(c, key, delta) ==
    IF key \in DOMAIN c /\ ~IsErr(parse_i64(c[key]))
    THEN LET current == parse_i64(c[key]) IN
         [cache |-> Insert(c, key, i64_to_string(current.value + delta)),
          result |-> Ok(current.value + delta)]
    ELSE [cache |-> Insert(c, key, i64_to_string(delta)), result |-> Ok(delta)]

\* LocalCache::incr / decr (local_cache.rs:167-197), delta is 1 or -1: the
\* stored bytes are read as decimal text, the new value is stored as decimal text
LocalCache_incr(c, key, delta) ==
    IF key \in DOMAIN c
    THEN LET current == parse_i64(c[key]) IN
         IF IsErr(current) THEN [cache |-> c, result |-> current]
         ELSE [cache |-> Insert(c, key, i64_to_string(current.value + delta)),
               result |-> Ok(current.value + delta)]
    ELSE [cache |-> Insert(c, key, i64_to_string(delta)), result |-> Ok(delta)]

\* the counter value a call returned, if it returned one, is within the bound
InCountRange(res) ==
    IF IsErr(res) THEN TRUE ELSE res.value <= MaxCount /\ 0 - res.value <= MaxCount

\* local.incr(k)
LocalIncr ==
    /\ Free
    /\ \E k \in Keys :
          LET r == LocalCache_incr(cache, k, 1) IN
          /\ InCountRange(r.result)
          /\ cache' = r.cache
          /\ op' = Call("local.incr", k, "-", "-", None, TRUE, r.result, <<>>)
    /\ UNCHANGED <<regs, conc, logged, time, hash_cache, redis, redis_hash, multi>>

\* local.decr(k)
LocalDecr ==
    /\ Free
    /\ \E k \in Keys :
          LET r == LocalCache_incr(cache, k, 0 - 1) IN
          /\ InCountRange(r.result)
          /\ cache' = r.cache
          /\ op' = Call("local.decr", k, "-", "-", None, TRUE, r.result, <<>>)
    /\ UNCHANGED <<regs, conc, logged, time, hash_cache, redis, redis_hash, multi>>

\* one caller uses the plain entries of a LocalCache as values and as
\* counters, call after call
NextCounter ==
    \/ LocalSet
    \/ LocalGet
    \/ LocalDel
    \/ LocalIncr
    \/ LocalDecr
    \/ MokaEvict

SpecCounter == InitWith({}) /\ [][NextCounter]_vars

(* ---------------------- MultiLevelCache: operations -------------------- *)

\* std::cmp::min
Min(a, b) == IF a <= b THEN a ELSE b

\* the stores the operations of an instance work on
Stores == [cache |-> cache, hash_cache |-> hash_cache,
           redis |-> redis, redis_hash |-> redis_hash]

\* the outcome of an operation: the stores after it, what it returned and the
\* Redis commands it issued
Outcome(c, h, rs, rh, res, remote) ==
    [cache |-> c, hash_cache |-> h, redis |-> rs, redis_hash |-> rh,
     result |-> res, remote |-> remote]

\* set returning the error of a failed Redis write
MultiLevelCache_set_strict(m, st, up, key, value) ==
    LET l == LocalCache_set_ex(st.cache, key, value, DefaultLocalTtl) IN
    IF m.redis_cache = "Some"
    THEN LET r == RedisCache_set(st.redis, st.redis_hash, up, key, value) IN
         Outcome(l.cache, st.hash_cache, r.redis, r.redis_hash, r.result, <<"SET">>)
    ELSE Outcome(l.cache, st.hash_cache, st.redis, st.redis_hash, OkUnit, <<>>)

\* MultiLevelCache::set (multi_level_cache.rs:112-131): Local with local_ttl
\* (the write cannot fail for a String or an i64), then Redis if present, its
\* error only logged
MultiLevelCache_set(m, st, up, key, value) ==
    LET l == LocalCache_set_ex(st.cache, key, value, DefaultLocalTtl) IN
    IF m.redis_cache = "Some"
    THEN LET r == RedisCache_set(st.redis, st.redis_hash, up, key, value) IN
         Outcome(l.cache, st.hash_cache, r.redis, r.redis_hash, OkUnit, <<"SET">>)
    ELSE Outcome(l.cache, st.hash_cache, st.redis, st.redis_hash, OkUnit, <<>>)

\* MultiLevelCache::set_ex (multi_level_cache.rs:133-152)
MultiLevelCache_set_ex(m, st, up, key, value, ttl) ==
    LET local_ttl == Min(ttl, DefaultLocalTtl)
        l == LocalCache_set_ex(st.cache, key, value, local_ttl) IN
    IF m.redis_cache = "Some"
    THEN LET r == RedisCache_set_ex(st.redis, st.redis_hash, up, key, value, ttl) IN
         Outcome(l.cache, st.hash_cache, r.redis, r.redis_hash, OkUnit, <<"SETEX">>)
    ELSE Outcome(l.cache, st.hash_cache, st.redis, st.redis_hash, OkUnit, <<>>)

\* get asking Redis first
MultiLevelCache_get_remote_first(m, st, up, T, key) ==
    LET r == IF m.redis_cache = "Some"
             THEN RedisCache_get(st.redis, st.redis_hash, up, T, key) ELSE None
        l == LocalCache_get(st.cache, T, key) IN
    IF IsSome(r)
    THEN Outcome(st.cache, st.hash_cache, st.redis, st.redis_hash, r, <<"GET">>)
    ELSE Outcome(st.cache, st.hash_cache, st.redis, st.redis_hash,
                 IF IsSome(l) THEN l ELSE None, <<>>)

\* get writing the value found in Redis back into Local
MultiLevelCache_get_backfill(m, st, up, T, key) ==
    LET l == LocalCache_get(st.cache, T, key) IN
    IF IsSome(l)
    THEN Outcome(st.cache, st.hash_cache, st.redis, st.redis_hash, l, <<>>)
    ELSE IF m.redis_cache = "Some"
         THEN LET r == RedisCache_get(st.redis, st.redis_hash, up, T, key) IN
              IF IsSome(r)
              THEN Outcome(LocalCache_set_ex(st.cache, key, r.value, DefaultLocalTtl).cache,
                           st.hash_cache, st.redis, st.redis_hash, r, <<"GET">>)
              ELSE Outcome(st.cache, st.hash_cache, st.redis, st.redis_hash, None, <<"GET">>)
         ELSE Outcome(st.cache, st.hash_cache, st.redis, st.redis_hash, None, <<>>)

\* MultiLevelCache::get::<T> (multi_level_cache.rs:154-184): a Local hit is
\* returned; after a Local miss or error Redis, if present, is asked; its miss
\* or error gives None
MultiLevelCache_get(m, st, up, T, key) ==
    LET l == LocalCache_get(st.cache, T, key) IN
    IF IsSome(l)
    THEN Outcome(st.cache, st.hash_cache, st.redis, st.redis_hash, l, <<>>)
    ELSE IF m.redis_cache = "Some"
         THEN LET r == RedisCache_get(st.redis, st.redis_hash, up, T, key) IN
              Outcome(st.cache, st.hash_cache, st.redis, st.redis_hash,
                      IF IsSome(r) THEN r ELSE None, <<"GET">>)
         ELSE Outcome(st.cache, st.hash_cache, st.redis, st.redis_hash, None, <<>>)

\* incr / decr counting in Local first and returning Local's value
MultiLevelCache_incr_local_first(m, st, up, key, delta) ==
    LET l == LocalCache_incr(st.cache, key, delta) IN
    IF m.redis_cache = "Some"
    THEN LET r == RedisCache_incr(st.redis, st.redis_hash, up, key, delta) IN
         Outcome(l.cache, st.hash_cache, r.redis, st.redis_hash, l.result,
                 <<IF delta = 1 THEN "INCR" ELSE "DECR">>)
    ELSE Outcome(l.cache, st.hash_cache, st.redis, st.redis_hash, l.result, <<>>)

\* MultiLevelCache::incr / decr (multi_level_cache.rs:255-305), delta is 1 or
\* -1: Redis, if present, counts, and its value in decimal text is stored in
\* Local as a String; if Redis is absent or fails, Local counts
MultiLevelCache_incr(m, st, up, key, delta) ==
    LET r == RedisCache_incr(st.redis, st.redis_hash, up, key, delta)
        cmd == <<IF delta = 1 THEN "INCR" ELSE "DECR">> IN
    IF m.redis_cache = "Some" /\ ~IsErr(r.result)
    THEN Outcome(LocalCache_set_ex(st.cache, key, Str(i64_to_string(r.result.value)),
                                   DefaultLocalTtl).cache,
                 st.hash_cache, r.redis, st.redis_hash, r.result, cmd)
    ELSE LET l == LocalCache_incr(st.cache, key, delta) IN
         Outcome(l.cache, st.hash_cache, st.redis, st.redis_hash, l.result,
                 IF m.redis_cache = "Some" THEN cmd ELSE <<>>)

\* MultiLevelCache::hset (multi_level_cache.rs:309-329)
MultiLevelCache_hset(m, st, up, key, field, value) ==
    LET l == LocalCache_hset(st.hash_cache, key, field, value) IN
    IF m.redis_cache = "Some"
    THEN LET r == RedisCache_hset(st.redis, st.redis_hash, up, key, field, value) IN
         Outcome(st.cache, l.hash_cache, st.redis, r.redis_hash, OkUnit, <<"HSET">>)
    ELSE Outcome(st.cache, l.hash_cache, st.redis, st.redis_hash, OkUnit, <<>>)

\* MultiLevelCache::hget::<T> (multi_level_cache.rs:331-366)
MultiLevelCache_hget(m, st, up, T, key, field) ==
    LET l == LocalCache_hget(st.hash_cache, T, key, field) IN
    IF IsSome(l)
    THEN Outcome(st.cache, st.hash_cache, st.redis, st.redis_hash, l, <<>>)
    ELSE IF m.redis_cache = "Some"
         THEN LET r == RedisCache_hget(st.redis, st.redis_hash, up, T, key, field) IN
              Outcome(st.cache, st.hash_cache, st.redis, st.redis_hash,
                      IF IsSome(r) THEN r ELSE None, <<"HGET">>)
         ELSE Outcome(st.cache, st.hash_cache, st.redis, st.redis_hash, None, <<>>)

(* ------------------------ MultiLevelCache: calls ----------------------- *)

\* the patterns keys is called with: a key name, a letter and one more
\* character as a regular expression, and the glob that matches every key
Patterns == {"k1", "k.", "*"}

\* Regex::new(pattern) is Ok: "*" repeats nothing and is rejected
RegexValid(pattern) == pattern # "*"

\* Regex::is_match (string.rs:108-110) of a valid pattern: the key has a part
\* that matches
regex_is_match(pattern, key) ==
    CASE pattern = "k1" -> key = "k1"
      [] pattern = "k." -> key \in {"k1", "k2"}
      [] OTHER -> FALSE

\* the glob matching of the KEYS command: the whole key matches, `.` is an
\* ordinary character
glob_match(pattern, key) ==
    CASE pattern = "k1" -> key = "k1"
      [] pattern = "*" -> TRUE
      [] OTHER -> FALSE

\* the calling task panicked: the unwrap of regex_from_pattern (string.rs:112-114)
Panicked == [tag |-> "Panic"]

\* LocalCache::keys (local_cache.rs:136-145): the plain entries whose key the
\* regular expression matches; the hash entries are not listed
LocalCache_keys(c, pattern) ==
    IF ~RegexValid(pattern) THEN Panicked
    ELSE Ok({k \in DOMAIN c : regex_is_match(pattern, k)})

\* RedisCache::keys (redis_cache.rs:322-335): KEYS pattern
RedisCache_keys(rs, rh, up, pattern) ==
    IF ~up THEN RedisDown
    ELSE Ok({k \in DOMAIN rs \cup DOMAIN rh : glob_match(pattern, k)})

\* MultiLevelCache::keys (multi_level_cache.rs:186-196)
MultiLevelCache_keys(m, st, up, pattern) ==
    LET l == LocalCache_keys(st.cache, pattern) IN
    IF l.tag = "Panic" \/ l.value # {}
    THEN Outcome(st.cache, st.hash_cache, st.redis, st.redis_hash, l, <<>>)
    ELSE IF m.redis_cache = "Some"
         THEN LET r == RedisCache_keys(st.redis, st.redis_hash, up, pattern) IN
              Outcome(st.cache, st.hash_cache, st.redis, st.redis_hash,
                      IF IsErr(r) THEN r ELSE Ok(l.value \cup r.value), <<"KEYS">>)
         ELSE Outcome(st.cache, st.hash_cache, st.redis, st.redis_hash, l, <<>>)

\* RedisCache::exists (redis_cache.rs:353-361): EXISTS key
RedisCache_exists(rs, rh, up, key) ==
    IF ~up THEN RedisDown ELSE Ok(key \in DOMAIN rs \cup DOMAIN rh)

\* RedisCache::hexists (redis_cache.rs:471-481): HEXISTS key field
RedisCache_hexists(rs, rh, up, key, field) ==
    IF ~up THEN RedisDown
    ELSE IF key \in DOMAIN rs THEN WrongType
    ELSE Ok(key \in DOMAIN rh /\ field \in DOMAIN rh[key])

\* exists returning the error of a failed Redis command
MultiLevelCache_exists_strict(m, st, up, key) ==
    LET l == LocalCache_exists(st.cache, st.hash_cache, key) IN
    IF l = Ok(TRUE) \/ m.redis_cache = "None"
    THEN Outcome(st.cache, st.hash_cache, st.redis, st.redis_hash, l, <<>>)
    ELSE Outcome(st.cache, st.hash_cache, st.redis, st.redis_hash,
                 RedisCache_exists(st.redis, st.redis_hash, up, key), <<"EXISTS">>)

\* MultiLevelCache::exists (multi_level_cache.rs:214-236): Local's true is
\* returned; else Redis, if present, is asked; its error gives false
MultiLevelCache_exists(m, st, up, key) ==
    LET l == LocalCache_exists(st.cache, st.hash_cache, key) IN
    IF l = Ok(TRUE)
    THEN Outcome(st.cache, st.hash_cache, st.redis, st.redis_hash, l, <<>>)
    ELSE IF m.redis_cache = "Some"
         THEN LET r == RedisCache_exists(st.redis, st.redis_hash, up, key) IN
              Outcome(st.cache, st.hash_cache, st.redis, st.redis_hash,
                      IF IsErr(r) THEN Ok(FALSE) ELSE r, <<"EXISTS">>)
         ELSE Outcome(st.cache, st.hash_cache, st.redis, st.redis_hash, Ok(FALSE), <<>>)

\* MultiLevelCache::hexists (multi_level_cache.rs:390-418)
MultiLevelCache_hexists(m, st, up, key, field) ==
    LET l == LocalCache_hexists(st.hash_cache, key, field) IN
    IF l = Ok(TRUE)
    THEN Outcome(st.cache, st.hash_cache, st.redis, st.redis_hash, l, <<>>)
    ELSE IF m.redis_cache = "Some"
         THEN LET r == RedisCache_hexists(st.redis, st.redis_hash, up, key, field) IN
              Outcome(st.cache, st.hash_cache, st.redis, st.redis_hash,
                      IF IsErr(r) THEN Ok(FALSE) ELSE r, <<"HEXISTS">>)
         ELSE Outcome(st.cache, st.hash_cache, st.redis, st.redis_hash, Ok(FALSE), <<>>)

\* RedisCache::del (redis_cache.rs:337-351): DEL drops a key of any type
RedisCache_del(rs, rh, up, key) ==
    IF ~up THEN [redis |-> rs, redis_hash |-> rh, result |-> RedisDown]
    ELSE [redis |-> Remove(rs, key), redis_hash |-> Remove(rh, key), result |-> OkUnit]

\* MultiLevelCache::del (multi_level_cache.rs:198-212): Local drops the key,
\* Redis, if present, is asked to; an error of either is logged, the call
\* returns Ok
MultiLevelCache_del(m, st, up, key) ==
    LET l == LocalCache_del(st.cache, st.hash_cache, key) IN
    IF m.redis_cache = "Some"
    THEN LET r == RedisCache_del(st.redis, st.redis_hash, up, key) IN
         Outcome(l.cache, l.hash_cache, r.redis, r.redis_hash, OkUnit, <<"DEL">>)
    ELSE Outcome(l.cache, l.hash_cache, st.redis, st.redis_hash, OkUnit, <<>>)

\* RedisCache::expire (redis_cache.rs:363-379): EXPIRE; the server's answer,
\* whether the key exists, is dropped
RedisCache_expire(rs, rh, up, key, ttl) ==
    IF ~up THEN RedisDown ELSE OkUnit

\* MultiLevelCache::expire (multi_level_cache.rs:238-253): the errors of both
\* halves are logged, the call returns Ok(())
MultiLevelCache_expire(m, st, up, key, ttl) ==
    LET local_ttl == Min(ttl, DefaultLocalTtl)
        l == LocalCache_expire(st.cache, st.hash_cache, key, local_ttl) IN
    IF m.redis_cache = "Some"
    THEN LET r == RedisCache_expire(st.redis, st.redis_hash, up, key, ttl) IN
         Outcome(l.cache, l.hash_cache, st.redis, st.redis_hash, OkUnit, <<"EXPIRE">>)
    ELSE Outcome(l.cache, l.hash_cache, st.redis, st.redis_hash, OkUnit, <<>>)

\* the settings MultiLevelCache::new is called with: a named Local tier, any
\* Redis topology and address fields, either fallback policy
MultiConfigs ==
    {s \in SettingsSet : s.enabled /\ s.cache_type = "Multi" /\ s.local_name = "local"}

\* MultiLevelCache::is_in_fallback_mode (multi_level_cache.rs:100-102)
is_in_fallback_mode(m) == m.is_fallback_mode

\* the stores and the call record after a call with outcome o
Apply(o, call) ==
    /\ cache' = o.cache
    /\ hash_cache' = o.hash_cache
    /\ redis' = o.redis
    /\ redis_hash' = o.redis_hash
    /\ op' = call

\* MultiLevelCache::new(config): on Ok the process has its instance
MultiNew ==
    /\ Free
    /\ multi = None
    /\ \E config \in MultiConfigs, up \in BOOLEAN :
          LET r == MultiLevelCache_new(config, up) IN
          /\ multi' = IF IsErr(r) THEN None
                      ELSE [tag |-> "Multi", redis_cache |-> r.redis_cache,
                            is_fallback_mode |-> r.is_fallback]
          /\ op' = Call("multi.new", "-", "-", "-", config, up,
                        IF IsErr(r) THEN r ELSE OkUnit, <<>>)
    /\ UNCHANGED <<regs, conc, logged, time, cache, hash_cache, redis, redis_hash>>

\* multi.set(k, v)
MultiSet ==
    /\ Free
    /\ multi # None
    /\ \E k \in MultiKeys, v \in Values, up \in BOOLEAN :
          LET o == MultiLevelCache_set(multi, Stores, up, k, v) IN
          Apply(o, Call("multi.set", k, "-", v.type, v, up, o.result, o.remote))
    /\ UNCHANGED <<regs, conc, logged, time, multi>>

\* multi.set_ex(k, v, ttl)
MultiSetEx ==
    /\ Free
    /\ multi # None
    /\ \E k \in MultiKeys, v \in Values, ttl \in Ttls, up \in BOOLEAN :
          LET o == MultiLevelCache_set_ex(multi, Stores, up, k, v, ttl) IN
          Apply(o, Call("multi.set_ex", k, "-", v.type, v, up, o.result, o.remote))
    /\ UNCHANGED <<regs, conc, logged, time, multi>>

\* multi.expire(k, ttl)
MultiExpire ==
    /\ Free
    /\ multi # None
    /\ \E k \in MultiKeys, ttl \in Ttls, up \in BOOLEAN :
          LET o == MultiLevelCache_expire(multi, Stores, up, k, ttl) IN
          Apply(o, Call("multi.expire", k, "-", "-", None, up, o.result, o.remote))
    /\ UNCHANGED <<regs, conc, logged, time, multi>>

\* multi.get::<T>(k)
MultiGet ==
    /\ Free
    /\ multi # None
    /\ \E k \in MultiKeys, T \in Types, up \in BOOLEAN :
          LET o == MultiLevelCache_get(multi, Stores, up, T, k) IN
          Apply(o, Call("multi.get", k, "-", T, None, up, o.result, o.remote))
    /\ UNCHANGED <<regs, conc, logged, time, multi>>

\* multi.incr(k)
MultiIncr ==
    /\ Free
    /\ multi # None
    /\ \E k \in MultiKeys, up \in BOOLEAN :
          LET o == MultiLevelCache_incr(multi, Stores, up, k, 1) IN
          /\ InCountRange(o.result)
          /\ Apply(o, Call("multi.incr", k, "-", "-", None, up, o.result, o.remote))
    /\ UNCHANGED <<regs, conc, logged, time, multi>>

\* multi.decr(k)
MultiDecr ==
    /\ Free
    /\ multi # None
    /\ \E k \in MultiKeys, up \in BOOLEAN :
          LET o == MultiLevelCache_incr(multi, Stores, up, k, 0 - 1) IN
          /\ InCountRange(o.result)
          /\ Apply(o, Call("multi.decr", k, "-", "-", None, up, o.result, o.remote))
    /\ UNCHANGED <<regs, conc, logged, time, multi>>

\* multi.hset(k, f, v)
MultiHset ==
    /\ Free
    /\ multi # None
    /\ \E k \in MultiKeys, f \in MultiFields, v \in Values, up \in BOOLEAN :
          LET o == MultiLevelCache_hset(multi, Stores, up, k, f, v) IN
          Apply(o, Call("multi.hset", k, f, v.type, v, up, o.result, o.remote))
    /\ UNCHANGED <<regs, conc, logged, time, multi>>

\* multi.hget::<T>(k, f)
MultiHget ==
    /\ Free
    /\ multi # None
    /\ \E k \in MultiKeys, f \in MultiFields, T \in Types, up \in BOOLEAN :
          LET o == MultiLevelCache_hget(multi, Stores, up, T, k, f) IN
          Apply(o, Call("multi.hget", k, f, T, None, up, o.result, o.remote))
    /\ UNCHANGED <<regs, conc, logged, time, multi>>

\* the texts other processes store in Redis: values written by RedisCache::set
RemoteTexts == {serde_json_to_vec(v) : v \in Values}

\* another process sharing the Redis server sets a string key
RemoteSet ==
    /\ Free
    /\ \E k \in MultiKeys, text \in RemoteTexts :
          /\ redis' = Insert(redis, k, text)
          /\ redis_hash' = Remove(redis_hash, k)
          /\ op' = Call("remote.set", k, "-", "-", None, TRUE, OkUnit, <<>>)
    /\ UNCHANGED <<regs, conc, logged, time, cache, hash_cache, multi>>

\* another process sets a hash field of a key that is not a string key
RemoteHset ==
    /\ Free
    /\ \E k \in MultiKeys \ DOMAIN redis, f \in MultiFields, text \in RemoteTexts :
          /\ redis_hash' = Insert(redis_hash, k,
                                  Insert(IF k \in DOMAIN redis_hash THEN redis_hash[k] ELSE <<>>,
                                         f, text))
          /\ op' = Call("remote.hset", k, f, "-", None, TRUE, OkUnit, <<>>)
    /\ UNCHANGED <<regs, conc, logged, time, cache, hash_cache, redis, multi>>

\* multi.exists(k)
MultiExists ==
    /\ Free
    /\ multi # None
    /\ \E k \in MultiKeys, up \in BOOLEAN :
          LET o == MultiLevelCache_exists(multi, Stores, up, k) IN
          Apply(o, Call("multi.exists", k, "-", "-", None, up, o.result, o.remote))
    /\ UNCHANGED <<regs, conc, logged, time, multi>>

\* multi.hexists(k, f)
MultiHexists ==
    /\ Free
    /\ multi # None
    /\ \E k \in MultiKeys, f \in MultiFields, up \in BOOLEAN :
          LET o == MultiLevelCache_hexists(multi, Stores, up, k, f) IN
          Apply(o, Call("multi.hexists", k, f, "-", None, up, o.result, o.remote))
    /\ UNCHANGED <<regs, conc, logged, time, multi>>

\* multi.keys(pattern)
MultiListKeys ==
    /\ Free
    /\ multi # None
    /\ \E pattern \in Patterns, up \in BOOLEAN :
          LET o == MultiLevelCache_keys(multi, Stores, up, pattern) IN
          Apply(o, Call("multi.keys", pattern, "-", "-", None, up, o.result, o.remote))
    /\ UNCHANGED <<regs, conc, logged, time, multi>>

\* multi.del(k)
MultiDel ==
    /\ Free
    /\ multi # None
    /\ \E k \in MultiKeys, up \in BOOLEAN :
          LET o == MultiLevelCache_del(multi, Stores, up, k) IN
          Apply(o, Call("multi.del", k, "-", "-", None, up, o.result, o.remote))
    /\ UNCHANGED <<regs, conc, logged, time, multi>>

\* another process deletes a key, or the server drops it when its ttl has passed
RemoteDel ==
    /\ Free
    /\ \E k \in DOMAIN redis \cup DOMAIN redis_hash :
          /\ redis' = Remove(redis, k)
          /\ redis_hash' = Remove(redis_hash, k)
          /\ op' = Call("remote.del", k, "-", "-", None, TRUE, OkUnit, <<>>)
    /\ UNCHANGED <<regs, conc, logged, time, cache, hash_cache, multi>>

\* one caller constructs a MultiLevelCache and uses it, call after call, while
\* other processes use the same Redis server
NextMulti ==
    \/ MultiNew
    \/ MultiSet
    \/ MultiSetEx
    \/ MultiExpire
    \/ MultiGet
    \/ MultiIncr
    \/ MultiDecr
    \/ MultiHset
    \/ MultiHget
    \/ MultiExists
    \/ MultiHexists
    \/ MultiListKeys
    \/ MultiDel
    \/ MokaEvict
    \/ RemoteSet
    \/ RemoteHset
    \/ RemoteDel

SpecMulti == InitWith({}) /\ [][NextMulti]_vars

(* ================== MultiLevelCache: the properties ================== *)

\* the call made last was MultiLevelCache::new and its Redis tier could not be built
RemoteBuildFailed ==
    op.name = "multi.new" /\ IsErr(RedisCacheManager_get_cache(op.value, op.up))

\* C12: when building the Redis tier fails inside MultiLevelCache::new, an
\* instance is produced if and only if fallback_to_local is true; that instance
\* has no Redis tier and is_in_fallback_mode() is true; with
\* fallback_to_local=false the Redis error is returned and there is no
\* instance.  An instance never changes its tier or its flag, so the flag is
\* true for the whole lifetime of an instance built without Redis.
C12_FallbackIffConfigured ==
    /\ [](RemoteBuildFailed =>
            /\ (multi # None) <=> op.value.fallback_to_local
            /\ multi # None =>
                  (multi.redis_cache = "None" /\ is_in_fallback_mode(multi)
                      /\ op.result = OkUnit)
            /\ ~op.value.fallback_to_local =>
                  op.result = RedisCacheManager_get_cache(op.value, op.up))
    /\ [](multi # None => (is_in_fallback_mode(multi) <=> multi.redis_cache = "None"))
    /\ [][multi # None => multi' = multi]_vars

\* C12 witness: an instance built after a failed connection attempt is in use
\* without its Redis tier, in fallback mode
C12_Witness ==
    /\ multi # None
    /\ multi.redis_cache = "None" /\ is_in_fallback_mode(multi)
    /\ op.name = "multi.set" /\ op.result = OkUnit /\ op.remote = <<>>

\* MultiLevelCache::new was called last, with Redis unreachable and
\* fallback_to_local=false, and returned an error
NewFailedUnreachable ==
    /\ op.name = "multi.new"
    /\ ~op.up /\ ~op.value.fallback_to_local
    /\ IsErr(op.result)

RemoteAbsentOrFailing(o) == multi.redis_cache = "None" \/ ~o.up

\* C14: with the Redis tier absent (fallback mode) or present but failing the
\* write, multi.set(k, v) and multi.set_ex(k, v, ttl) return Ok and Local holds
\* v, and a multi.get(k) of the same type that follows immediately returns
\* Some(v), whatever Redis does during the read.
C14_WriteSurvivesRemoteOutage ==
    [][/\ (op'.name \in {"multi.set", "multi.set_ex"} /\ RemoteAbsentOrFailing(op')) =>
             /\ op'.result = OkUnit
             /\ LocalCache_get(cache', op'.typ, op'.key) = Some(op'.value)
       /\ (/\ op.name \in {"multi.set", "multi.set_ex"} /\ RemoteAbsentOrFailing(op)
           /\ op'.name = "multi.get" /\ op'.key = op.key /\ op'.typ = op.typ) =>
             op'.result = Some(op.value)]_vars

\* C14 witness: a set through an instance with a Redis tier that did not answer
\* returned Ok; Local has the value and Redis does not
C14_Witness ==
    /\ op.name = "multi.set" /\ op.result = OkUnit
    /\ multi.redis_cache = "Some" /\ ~op.up /\ op.remote = <<"SET">>
    /\ op.key \in DOMAIN cache /\ op.key \notin DOMAIN redis

\* C15: whenever local.get(k) would return Some(v), multi.get(k) returns
\* Some(v), whatever Redis holds for k and whether Redis is absent, failing or
\* healthy, and no Redis command is issued.
C15_LocalHitWins ==
    [][op'.name = "multi.get" =>
          LET l == LocalCache_get(cache, op'.typ, op'.key) IN
          IsSome(l) => (op'.result = l /\ op'.remote = <<>>)]_vars

\* C15 witness: a get returned Local's value while a healthy Redis held another
\* value for the key
C15_Witness ==
    /\ op.name = "multi.get" /\ IsSome(op.result) /\ op.remote = <<>>
    /\ multi.redis_cache = "Some" /\ op.up
    /\ op.key \in DOMAIN redis /\ op.key \in DOMAIN cache
    /\ redis[op.key] # cache[op.key]

\* the read o (the call made last) missed in Local and returned Redis's value
RemoteHit(o) ==
    /\ o.name \in {"multi.get", "multi.hget"}
    /\ o.remote # <<>> /\ IsSome(o.result)

Delta(o) == IF o.name = "multi.incr" THEN 1 ELSE 0 - 1

\* the counter call o (the call made last) got its value from Redis: Redis
\* answered and holds the value returned
ViaRemote(o) ==
    /\ o.name \in {"multi.incr", "multi.decr"}
    /\ multi.redis_cache = "Some" /\ o.up /\ ~IsErr(o.result)
    /\ o.key \in DOMAIN redis
    /\ redis[o.key] = i64_to_string(o.result.value)

\* C17: with the Redis tier present and its counter operation succeeding,
\* multi.incr(k) returns the value of Redis's counter after the increment (its
\* value before plus one, zero for a missing key), whatever Local held for k;
\* Local's entry for k is overwritten with the returned value in decimal text
\* (stored as a String), not incremented; consecutive calls return strictly
\* increasing values.  decr is symmetric.
C17_RemoteCounterAuthority ==
    [][/\ (/\ op'.name \in {"multi.incr", "multi.decr"} /\ multi.redis_cache = "Some"
           /\ ~IsErr(RedisCache_incr(redis, redis_hash, op'.up, op'.key, Delta(op')).result)) =>
             LET before == IF op'.key \in DOMAIN redis
                           THEN redis_integer(redis[op'.key]).value ELSE 0 IN
             /\ op'.result = Ok(before + Delta(op'))
             /\ redis_integer(redis'[op'.key]) = op'.result
             /\ cache'[op'.key] = serde_json_to_vec(Str(i64_to_string(op'.result.value)))
             /\ LocalCache_get(cache', "String", op'.key)
                    = Some(Str(i64_to_string(op'.result.value)))
       /\ (ViaRemote(op) /\ ViaRemote(op)' /\ op'.name = op.name /\ op'.key = op.key) =>
             IF op.name = "multi.incr"
             THEN op'.result.value > op.result.value
             ELSE op'.result.value < op.result.value]_vars

\* C17 witness: the second of two increments through Redis returned 2 and Local
\* holds the text of 2
C17_Witness ==
    /\ ViaRemote(op) /\ op.name = "multi.incr"
    /\ op.result = Ok(2)
    /\ cache[op.key] = <<"\"", "2", "\"">>

(* ===================== LocalCache: the properties ===================== *)

\* the call o writes or drops the plain entry of key k
WritesPlain(o, k) == o.name \in {"local.set", "local.del", "evict"} /\ o.key = k

\* C18: after local.set(k, v) succeeds (set_string / set_int of the facade), a
\* read of k as the same type (get_string / get_int) returns Some(v): the read
\* that follows immediately does, and every call that does not overwrite,
\* delete, evict or expire k, a call on the hash entry of k or on another key
\* included, leaves what a read of k returns as it was.
C18_LocalRoundTrip ==
    [][/\ op'.name = "local.set" =>
             /\ op'.result = OkUnit
             /\ CacheAdapter_get(cache', op'.typ, op'.key) = Some(op'.value)
       /\ (op.name = "local.set" /\ op'.name = "local.get"
             /\ op'.key = op.key /\ op'.typ = op.typ) =>
             op'.result = Some(op.value)
       /\ \A k \in Keys, T \in Types :
             LET before == CacheAdapter_get(cache, T, k) IN
             (IsSome(before) /\ ~WritesPlain(op', k)) =>
                 /\ CacheAdapter_get(cache', T, k) = before
                 /\ (op'.name = "local.get" /\ op'.key = k /\ op'.typ = T) =>
                       op'.result = before]_vars

\* C18 witness: the string "1" was read back as a string while the other key
\* holds the integer 1
C18_Witness ==
    /\ op.name = "local.get" /\ op.typ = "String"
    /\ op.result = Some(Str(<<"1">>))
    /\ \E k \in Keys \ {op.key} : CacheAdapter_get(cache, "i64", k) = Some(I64(1))

\* C19: in LocalCache, after hset(k, f, v) hexists(k, f) is true and hget(k, f)
\* returns v; a following hdel(k, f) returns, after it hexists(k, f) is false,
\* and if f was the only field of k the hash entry of k is gone: hlen(k) is 0
\* and exists(k) is false when k has no plain entry.
C19_HashFieldLifecycle ==
    [][/\ op'.name = "local.hset" =>
             /\ op'.result = OkUnit
             /\ LocalCache_hexists(hash_cache', op'.key, op'.field) = Ok(TRUE)
             /\ LocalCache_hget(hash_cache', op'.typ, op'.key, op'.field) = Some(op'.value)
       /\ (op.name = "local.hset" /\ op'.name = "local.hdel"
             /\ op'.key = op.key /\ op'.field = op.field) =>
             /\ op'.result = OkUnit
             /\ LocalCache_hexists(hash_cache', op'.key, op'.field) = Ok(FALSE)
             /\ DOMAIN hash_cache[op.key] = {op.field} =>
                   /\ op'.key \notin DOMAIN hash_cache'
                   /\ LocalCache_hlen(hash_cache', op'.key) = Ok(0)
                   /\ op'.key \notin DOMAIN cache =>
                         LocalCache_exists(cache', hash_cache', op'.key) = Ok(FALSE)]_vars

\* C20: after LocalCache::del(k) returns, k has neither a plain entry nor a
\* hash entry: get(k) is None for every type, exists(k) is false, hlen(k) is 0
\* and hexists(k, f) is false for every field f; the entries of the other keys
\* are as they were.
C20_DelRemovesBoth ==
    [][op'.name = "local.del" =>
          LET k == op'.key IN
          /\ op'.result = OkUnit
          /\ \A T \in Types : LocalCache_get(cache', T, k) = None
          /\ LocalCache_exists(cache', hash_cache', k) = Ok(FALSE)
          /\ LocalCache_hlen(hash_cache', k) = Ok(0)
          /\ \A f \in Fields : LocalCache_hexists(hash_cache', k, f) = Ok(FALSE)
          /\ \A j \in Keys \ {k} :
                /\ (j \in DOMAIN cache') <=> (j \in DOMAIN cache)
                /\ j \in DOMAIN cache => cache'[j] = cache[j]
                /\ (j \in DOMAIN hash_cache') <=> (j \in DOMAIN hash_cache)
                /\ j \in DOMAIN hash_cache => hash_cache'[j] = hash_cache[j]]_vars

\* C20 witness: a del returned, its key has no entry of either kind, and the
\* other key still has a plain entry and a hash entry with both fields
C20_Witness ==
    /\ op.name = "local.del" /\ op.result = OkUnit
    /\ op.key \notin DOMAIN cache \cup DOMAIN hash_cache
    /\ \E j \in Keys \ {op.key} :
          /\ j \in DOMAIN cache /\ j \in DOMAIN hash_cache
          /\ DOMAIN hash_cache[j] = Fields

\* C21: LocalCache::expire(k, ttl) returns an error of kind Other when k has
\* neither a plain entry nor a hash entry and Ok(()) when it has either one;
\* in both cases the plain map and the hash map are as they were.
C21_ExpireOtherIffAbsent ==
    [][op'.name = "local.expire" =>
          LET k == op'.key
              present == k \in DOMAIN cache \/ k \in DOMAIN hash_cache IN
          /\ present => op'.result = OkUnit
          /\ ~present => IsErr(op'.result) /\ op'.result.kind = "Other"
          /\ cache' = cache
          /\ hash_cache' = hash_cache]_vars

\* C21 witness: expire failed on a key without an entry while the other key
\* has a hash entry only, on which expire answers Ok
C21_Witness ==
    /\ op.name = "local.expire" /\ IsErr(op.result) /\ op.result.kind = "Other"
    /\ \E j \in Keys \ {op.key} :
          /\ j \in DOMAIN hash_cache /\ j \notin DOMAIN cache
          /\ LocalCache_expire(cache, hash_cache, j, DefaultLocalTtl).result = OkUnit

(* =================== LocalCache: counters and decoding ================= *)

\* the text is a decimal integer: an optional sign, then one digit or more
IsDecimal(text) ==
    \/ AllDigits(text)
    \/ text # <<>> /\ text[1] \in {"-", "+"} /\ AllDigits(Tail(text))

\* the integer a decimal text denotes
DecimalValue(text) ==
    IF text[1] = "-" THEN 0 - DigitsValue(Tail(text))
    ELSE IF text[1] = "+" THEN DigitsValue(Tail(text))
    ELSE DigitsValue(text)

\* the step a counter call adds: local.incr adds 1, local.decr adds -1
LocalDelta(o) == IF o.name = "local.incr" THEN 1 ELSE 0 - 1

\* C22: LocalCache::incr(k) on a key without a plain entry returns 1 and decr
\* returns -1; on a stored decimal text n incr returns n + 1 and decr n - 1
\* (counters within -MaxCount..MaxCount); in both cases the result is stored as
\* decimal text under k.  On a stored value that is not decimal text the call
\* returns an error of kind Deserialization and the stored value is as it was.
\* The entries of the other keys are never touched.
C22_CounterSteps ==
    [][op'.name \in {"local.incr", "local.decr"} =>
          LET k == op'.key
              d == LocalDelta(op') IN
          /\ k \notin DOMAIN cache =>
                /\ op'.result = Ok(d)
                /\ cache' = Insert(cache, k, i64_to_string(d))
          /\ (k \in DOMAIN cache /\ IsDecimal(cache[k])) =>
                /\ op'.result = Ok(DecimalValue(cache[k]) + d)
                /\ cache' = Insert(cache, k, i64_to_string(DecimalValue(cache[k]) + d))
                /\ IsDecimal(cache'[k]) /\ DecimalValue(cache'[k]) = op'.result.value
          /\ (k \in DOMAIN cache /\ ~IsDecimal(cache[k])) =>
                /\ IsErr(op'.result) /\ op'.result.kind = "Deserialization"
                /\ cache' = cache]_vars

\* C22 witness: a decr on the integer that set_int stored returned 0 and left
\* the text "0", while the other key holds a string on which incr fails
C22_Witness ==
    /\ op.name = "local.decr" /\ op.result = Ok(0)
    /\ cache[op.key] = <<"0">>
    /\ \E j \in Keys \ {op.key} :
          /\ j \in DOMAIN cache
          /\ IsErr(LocalCache_incr(cache, j, 1).result)

\* the stored bytes do not decode as a value of type T
Undecodable(T, data) == IsErr(serde_json_from_slice(T, data))

\* C23: LocalCache::get::<T>(k) and hget::<T>(k, f) on an entry whose stored
\* bytes do not decode as T return an error, its kind is Deserialization, and
\* they do not return Ok(None).
C23_DecodeErrorIsDeserialization ==
    [][/\ (op'.name = "local.get" /\ op'.key \in DOMAIN cache
             /\ Undecodable(op'.typ, cache[op'.key])) =>
             /\ op'.result # None
             /\ IsErr(op'.result) /\ op'.result.kind = "Deserialization"
       /\ (op'.name = "local.hget" /\ op'.key \in DOMAIN hash_cache
             /\ op'.field \in DOMAIN hash_cache[op'.key]
             /\ Undecodable(op'.typ, hash_cache[op'.key][op'.field])) =>
             /\ op'.result # None
             /\ IsErr(op'.result) /\ op'.result.kind = "Deserialization"]_vars

(* ====================================================================== *)
(* Part 3: RedisCache::new and the connection target it writes to the log *)
(* (redis_cache.rs:127-185).  Strings are sequences of characters.        *)
(* ====================================================================== *)

\* the longest password of a configuration
MaxPasswordLen == 3

\* the characters of a password: a letter and the separators of a url
PasswordChars == {"p", "@", ":", "/"}

\* Option<String> password of RedisConfig: none, or a non-empty string
Passwords ==
    {<<>>} \cup {<<w>> : w \in UNION {[1..n -> PasswordChars] : n \in 1..MaxPasswordLen}}

\* Option<String> url of a standalone RedisConfig that has one: with a
\* protocol, without one, and with a user name before the host
Urls ==
    {<< <<"r", ":", "/", "/", "h">> >>, << <<"h">> >>,
     << <<"r", ":", "/", "/", "u", "@", "h">> >>}

\* Option<i64> db of RedisConfig
Dbs == {<<>>, <<0>>}

\* the pattern pat is in s at position i
MatchAt(s, pat, i) ==
    /\ i + Len(pat) - 1 <= Len(s)
    /\ \A j \in 1..Len(pat) : s[i + j - 1] = pat[j]

\* str::contains
Contains(s, pat) == \E i \in 1..Len(s) : MatchAt(s, pat, i)

RECURSIVE Split(_, _)
\* str::split(pat).collect(): the pieces between the matches of pat, found
\* from left to right without overlap
Split(s, pat) ==
    IF ~Contains(s, pat) THEN <<s>>
    ELSE LET i == CHOOSE i \in 1..Len(s) :
                     MatchAt(s, pat, i) /\ \A j \in 1..(i - 1) : ~MatchAt(s, pat, j) IN
         <<SubSeq(s, 1, i - 1)>> \o Split(SubSeq(s, i + Len(pat), Len(s)), pat)

At == <<"@">>

Slash == <<"/">>

SchemeSep == <<":", "/", "/">>

Stars == <<"*", "*", "*", "*", "*">>

\* the url with the password put in (redis_cache.rs:135-147)
WithPassword(url, password) ==
    IF password # <<>> /\ ~Contains(url, At)
    THEN LET url_parts == Split(url, SchemeSep) IN
         IF Len(url_parts) = 2
         THEN url_parts[1] \o SchemeSep \o <<":">> \o password[1] \o At \o url_parts[2]
         ELSE url
    ELSE url

\* the url with the database put in (redis_cache.rs:150-154)
WithDb(url, db) ==
    IF db # <<>> /\ ~Contains(url, Slash)
    THEN url \o Slash \o i64_to_string(db[1])
    ELSE url

\* the url RedisCache::new connects to (redis_cache.rs:130-154)
ConnectionUrl(config) == WithDb(WithPassword(config.url[1], config.password), config.db)

\* log_url (redis_cache.rs:157-171)
log_url(url) ==
    IF Contains(url, At)
    THEN LET url_parts == Split(url, At) IN
         IF Len(url_parts) > 1
         THEN LET protocol_parts == Split(url_parts[1], SchemeSep) IN
              IF Len(protocol_parts) > 1
              THEN protocol_parts[1] \o SchemeSep \o Stars \o At \o url_parts[2]
              ELSE Stars \o At \o url_parts[2]
         ELSE <<"r", "e", "d", "i", "s">> \o SchemeSep \o Stars
    ELSE url

\* RedisCache::new of a standalone configuration with a url, up to its info!
\* line (redis_cache.rs:127-176)
RedisNewLog ==
    /\ \E url \in Urls, password \in Passwords, db \in Dbs :
          LET config == [url |-> url, password |-> password, db |-> db] IN
          logged' = [url |-> url, password |-> password, db |-> db,
                     text |-> <<log_url(ConnectionUrl(config))>>]
    /\ UNCHANGED <<regs, conc, cache, hash_cache, redis, redis_hash, multi, op, time>>

\* a process builds standalone Remote backends, one configuration after another
SpecLog == InitWith({}) /\ [][RedisNewLog]_vars

\* the text RedisCache::new logs for the logged configuration with password q
LogWith(q) ==
    log_url(ConnectionUrl([url |-> logged.url, password |-> q, db |-> logged.db]))

\* C24: the connection target RedisCache::new logs for a standalone
\* configuration with a password does not depend on the password: the text
\* logged is the text logged for the same url and db with any other password,
\* passwords with '@' or "://" included.
C24_LogIndependentOfPassword ==
    (logged.text # <<>> /\ logged.password # <<>>) =>
        \A q \in Passwords \ {<<>>} : logged.text[1] = LogWith(q)

(* ============ registry: construction, polling and the errors =========== *)

\* where a caller is between its successful compare-exchange and its store of
\* false into INITIALIZING (global_cache.rs:87-104)
InsideConstruction == {"build", "publish", "store_initialized", "clear"}

\* C25: without reset, at most one caller is between its successful
\* compare-exchange of INITIALIZING and its clearing of the flag, the flag is
\* set all that time, and no other caller starts construction meanwhile.
C25_OneConstructorAtATime ==
    /\ Cardinality({t \in Tasks : pc[t] \in InsideConstruction}) <= 1
    /\ (\E t \in Tasks : pc[t] \in InsideConstruction) => INITIALIZING = TRUE

\* C25 witness: one caller is past init_cache_by_type and about to publish
\* while another caller, which lost the compare-exchange, is polling
C25_Witness ==
    \E t, u \in Tasks :
       /\ pc[t] = "publish" /\ path[t] = "winner"
       /\ pc[u] \in {"poll", "poll_initialized"} /\ path[u] = "poller"

\* where a caller of init_global_cache_async is after its entry checks and
\* before its return
InsideInit ==
    {"cas", "poll", "poll_initialized", "poll_exit"} \cup InsideConstruction

\* C26: with fair scheduling and a build step that returns, every
\* init_global_cache_async call returns: the caller that won the
\* compare-exchange, and every caller that lost it, which leaves its polling
\* loop and returns Ok if INITIALIZED is set when it leaves and an error if
\* not, the latter only after a construction that failed.
C26_EveryInitReturns ==
    /\ \A t \in Tasks : (pc[t] \in InsideInit) ~> (pc[t] = "init_ret")
    /\ [][\A t \in Tasks :
            (pc[t] = "poll_exit" /\ pc'[t] = "init_ret") =>
                /\ INITIALIZED => ret'[t] = OkUnit
                /\ ~INITIALIZED => (IsErr(ret'[t]) /\ BuildErrors # {})]_vars

\* C26 witness: a caller that lost the compare-exchange has left its polling
\* loop and returned Ok, in a run where an earlier construction failed
C26_Witness ==
    \E t \in Tasks :
       /\ pc[t] = "init_ret" /\ path[t] = "poller" /\ ret[t] = OkUnit
       /\ BuildErrors # {}

\* the errors the construction of the backend that settings s select can end
\* with: RedisCacheManager::get_cache for Redis, MultiLevelCache::new for
\* Multi; the construction of a Local backend has none
BackendErrors(s) ==
    LET outcomes ==
            CASE s.cache_type = "Local" -> {}
              [] s.cache_type = "Redis" ->
                    {RedisCacheManager_get_cache(s, up) : up \in BOOLEAN}
              [] OTHER -> {MultiLevelCache_new(s, up) : up \in BOOLEAN}
    IN {r \in outcomes : IsErr(r)}

\* C27: when the construction of the backend fails, the initializing caller
\* receives the error of the backend's constructor as it is, same kind and
\* same message, for a Local, a Remote and a Multi backend.
C27_ConstructionErrorVerbatim ==
    [][\A t \in Tasks :
          /\ (pc[t] = "build" /\ pc'[t] = "clear") =>
                result'[t] \in BackendErrors(settings[t])
          /\ (pc[t] = "clear" /\ pc'[t] = "init_ret") => ret'[t] = result[t]]_vars

(* ============ MultiLevelCache: decoding, expire and lifetimes ========== *)

\* C28: multi.get::<T>(k), when Local holds an entry for k that does not
\* decode as T and Redis is absent or has no entry for k, returns an error of
\* kind Deserialization and not Ok(None).
C28_UndecodableIsNotAMiss ==
    [][(/\ op'.name = "multi.get"
        /\ op'.key \in DOMAIN cache
        /\ Undecodable(op'.typ, cache[op'.key])
        /\ \/ multi.redis_cache = "None"
           \/ op'.key \notin DOMAIN redis \cup DOMAIN redis_hash) =>
          /\ op'.result # None
          /\ IsErr(op'.result) /\ op'.result.kind = "Deserialization"]_vars

\* C29: MultiLevelCache::expire(k, ttl) on a key that neither tier stores, so
\* that the Local half fails, returns an error of kind Other and not Ok(()).
C29_ExpireAbsentIsOther ==
    [][(/\ op'.name = "multi.expire"
        /\ op'.key \notin DOMAIN cache \cup DOMAIN hash_cache
        /\ op'.key \notin DOMAIN redis \cup DOMAIN redis_hash) =>
          /\ op'.result # OkUnit
          /\ IsErr(op'.result) /\ op'.result.kind = "Other"]_vars

\* LocalCacheConfig::default, default_ttl in seconds (local_cache.rs:54)
LocalDefaultTtl == 3600

\* how long the moka cache keeps a plain entry that set_ex(key, value, ttl)
\* wrote: the time_to_live given to the builder in LocalCache::new
\* (local_cache.rs:74-77), as set_ex does not use its ttl (local_cache.rs:118)
LocalCache_time_to_live(ttl) == LocalDefaultTtl

\* how long the server keeps a key that SETEX wrote (redis_cache.rs:284-296)
RedisCache_time_to_live(ttl) == ttl

\* the time that passes between two calls, in seconds
ElapseStep == DefaultLocalTtl

\* the entry of age record e is past its time_to_live
Expired(e) == e.elapsed >= e.time_to_live

\* multi.set_ex(k, v, ttl), and the age records of the entries it wrote
MultiSetExTimed ==
    /\ Free
    /\ multi # None
    /\ \E k \in MultiKeys, v \in Values, ttl \in Ttls, up \in BOOLEAN :
          LET o == MultiLevelCache_set_ex(multi, Stores, up, k, v, ttl)
              local_ttl == Min(ttl, DefaultLocalTtl) IN
          /\ Apply(o, Call("multi.set_ex", k, "-", v.type, v, up, o.result, o.remote))
          /\ time' = [local |-> Insert(time.local, k,
                                   [elapsed |-> 0, ttl |-> ttl,
                                    time_to_live |-> LocalCache_time_to_live(local_ttl)]),
                      remote |-> IF multi.redis_cache = "Some" /\ up
                                 THEN Insert(time.remote, k,
                                         [elapsed |-> 0, ttl |-> ttl,
                                          time_to_live |-> RedisCache_time_to_live(ttl)])
                                 ELSE time.remote]
    /\ UNCHANGED <<regs, conc, logged, multi>>

\* the age records m one ElapseStep later
Aged(m) == [k \in DOMAIN m |-> [m[k] EXCEPT !.elapsed = @ + ElapseStep]]

\* the keys of the age records m whose entries are not past their time_to_live
Alive(m) == {k \in DOMAIN m : ~Expired(m[k])}

\* the map m without the keys outside of keep
Restrict(m, keep) == [k \in DOMAIN m \cap keep |-> m[k]]

\* ElapseStep seconds pass between two calls: the moka cache and the Redis
\* server drop the entries that are past their time_to_live
Elapse ==
    /\ Free
    /\ DOMAIN time.local \cup DOMAIN time.remote # {}
    /\ LET l == Aged(time.local)
           r == Aged(time.remote) IN
       /\ time' = [local |-> Restrict(l, Alive(l)), remote |-> Restrict(r, Alive(r))]
       /\ cache' = Restrict(cache, Alive(l))
       /\ redis' = Restrict(redis, Alive(r))
    /\ op' = Call("elapse", "-", "-", "-", None, TRUE, OkUnit, <<>>)
    /\ UNCHANGED <<regs, conc, logged, multi, hash_cache, redis_hash>>

\* one caller writes entries with set_ex and reads them while time passes
NextTtl ==
    \/ MultiNew
    \/ MultiSetExTimed
    \/ MultiGet
    \/ Elapse

SpecTtl == InitWith({}) /\ [][NextTtl]_vars

\* C30: multi.set_ex(k, v, ttl) gives the Local write the time-to-live
\* min(ttl, local_ttl), so that the Local copy of k is not readable once
\* min(ttl, local_ttl) seconds have passed since the write, and gives the Redis
\* write the time-to-live ttl.
C30_LocalCopyLivesMinTtl ==
    /\ \A k \in DOMAIN time.local :
          time.local[k].elapsed >= Min(time.local[k].ttl, DefaultLocalTtl) =>
              /\ k \notin DOMAIN cache
              /\ \A T \in Types : ~IsSome(LocalCache_get(cache, T, k))
    /\ \A k \in DOMAIN time.remote :
          time.remote[k].time_to_live = time.remote[k].ttl

(* ========== MultiLevelCache: enumeration, existence, deletion ========= *)

\* the plain Local keys pattern p matches, none if p is not a regular expression
LocalMatches(p) == {k \in DOMAIN cache : RegexValid(p) /\ regex_is_match(p, k)}

\* the keys of the Redis server pattern p matches
RemoteMatches(p) == {k \in DOMAIN redis \cup DOMAIN redis_hash : glob_match(p, k)}

\* C31: multi.keys(p) returns exactly Local's matches when Local has at least
\* one, without a command to Redis; when Local has no match it returns the
\* matches of Redis if the Redis tier is present (and answers), and the empty
\* list if the Redis tier is absent.
C31_KeysLocalFirst ==
    [][op'.name = "multi.keys" =>
          LET p == op'.key IN
          /\ LocalMatches(p) # {} =>
                op'.result = Ok(LocalMatches(p)) /\ op'.remote = <<>>
          /\ (LocalMatches(p) = {} /\ multi.redis_cache = "Some" /\ op'.up) =>
                op'.result = Ok(RemoteMatches(p))
          /\ (LocalMatches(p) = {} /\ multi.redis_cache = "None") =>
                op'.result = Ok({}) /\ op'.remote = <<>>]_vars

\* the Redis tier is present, answers this call and holds key k
RemoteHasKey(o, k) ==
    multi.redis_cache = "Some" /\ o.up /\ k \in DOMAIN redis \cup DOMAIN redis_hash

\* the Redis tier is present, answers this call and holds field f of hash k
RemoteHasField(o, k, f) ==
    /\ multi.redis_cache = "Some" /\ o.up
    /\ k \in DOMAIN redis_hash /\ f \in DOMAIN redis_hash[k]

\* C32: multi.exists(k) returns Ok(true) if and only if Local has an entry for
\* k or the Redis tier is present and reports k present; a Redis failure
\* counts as absent and the call never returns an error.  multi.hexists(k, f)
\* follows the same rule for field f of k.  Neither call changes a store.
C32_ExistsLocalOrRemote ==
    [][/\ op'.name = "multi.exists" =>
             /\ op'.result =
                   Ok(\/ op'.key \in DOMAIN cache \cup DOMAIN hash_cache
                      \/ RemoteHasKey(op', op'.key))
             /\ UNCHANGED <<cache, hash_cache, redis, redis_hash>>
       /\ op'.name = "multi.hexists" =>
             /\ op'.result =
                   Ok(\/ /\ op'.key \in DOMAIN hash_cache
                         /\ op'.field \in DOMAIN hash_cache[op'.key]
                      \/ RemoteHasField(op', op'.key, op'.field))
             /\ UNCHANGED <<cache, hash_cache, redis, redis_hash>>]_vars

\* C32 witness: exists answered false while the Redis server, which did not
\* answer this call, holds the key and Local does not
C32_Witness ==
    /\ op.name = "multi.exists" /\ op.result = Ok(FALSE)
    /\ multi.redis_cache = "Some" /\ ~op.up
    /\ op.key \in DOMAIN redis
    /\ op.key \notin DOMAIN cache \cup DOMAIN hash_cache

\* C35: after multi.del(k) returned Ok, a multi.get(k) or multi.exists(k) made
\* next, with no write to k in between, returns None, respectively false, also
\* when Redis failed during the delete and answers again at the read.
C35_DeletedStaysDeleted ==
    [][(/\ op.name = "multi.del" /\ op.result = OkUnit
        /\ op'.name \in {"multi.get", "multi.exists"} /\ op'.key = op.key) =>
          IF op'.name = "multi.get" THEN op'.result = None
          ELSE op'.result = Ok(FALSE)]_vars

\* C36: when multi.incr(k) returned n through Redis, which stored n in Local,
\* and the multi.incr(k) made next finds the Redis operation failing, that
\* call returns Ok(n + 1), counted by Local from the stored n; decr is
\* symmetric with n - 1.
C36_FallbackContinuesFromMirror ==
    [][(/\ ViaRemote(op) /\ op'.name = op.name /\ op'.key = op.key
        /\ IsErr(RedisCache_incr(redis, redis_hash, op'.up, op'.key, Delta(op')).result)) =>
          op'.result = Ok(op.result.value + Delta(op))]_vars

(* ====================================================================== *)
(* Part 4: tasks of a multi-thread runtime call one LocalCache at the     *)
(* same time.  The bodies of hset, hdel and incr have no await between    *)
(* their map operations, and each map operation is one step.              *)
(* ====================================================================== *)

\* the key the concurrent calls work on
HashKey == "k1"

\* the field an earlier call stored, the one hdel removes
SeedField == "f0"

\* the field task t writes: f1, f2, ...
FieldOf(t) == "f" \o Digit(t)

\* what the concurrent hash calls leave alone
beside == <<regs, cache, hash_cache, redis, redis_hash, multi, op, logged, time, mgr>>

\* the hash entries a reader finds: the inner map the outer map holds for a key
View == [k \in DOMAIN dash.outer |-> dash.heap[dash.outer[k]]]

\* hset(HashKey, SeedField, v) made and returned before the others start
Seed ==
    /\ dash.heap = <<>>
    /\ \A t \in Tasks : task[t].at = "idle"
    /\ \E v \in Values :
          dash' = [heap |-> <<Insert(<<>>, SeedField, serde_json_to_vec(v))>>,
                   outer |-> Insert(<<>>, HashKey, 1),
                   guards |-> {}]
    /\ UNCHANGED <<beside, task>>

\* task t calls hset(HashKey, FieldOf(t), v): the value is serialized
\* (local_cache.rs:201-207)
HsetCall(t) ==
    /\ task[t].at = "idle"
    /\ \E v \in Values :
          task' = [task EXCEPT ![t] =
                      [NoTask EXCEPT !.at = "hset_lookup", !.name = "hset",
                                     !.field = FieldOf(t),
                                     !.value = serde_json_to_vec(v)]]
    /\ UNCHANGED <<beside, dash>>

\* get_or_create_hash, self.hash_cache.get(key) (local_cache.rs:95-99): the
\* inner map of the key is cloned, or a new one is made
HsetLookup(t) ==
    /\ task[t].at = "hset_lookup"
    /\ IF HashKey \in DOMAIN dash.outer
       THEN /\ task' = [task EXCEPT ![t].arc = dash.outer[HashKey],
                                    ![t].at = "hset_insert"]
            /\ dash' = dash
       ELSE /\ dash' = [dash EXCEPT !.heap = Append(@, <<>>)]
            /\ task' = [task EXCEPT ![t].arc = Len(dash.heap) + 1,
                                    ![t].at = "hset_publish"]
    /\ UNCHANGED beside

\* get_or_create_hash, self.hash_cache.insert(key, hash) (local_cache.rs:100):
\* the write lock of the outer map waits for the guards; the insert replaces
\* the inner map another task put there
HsetPublish(t) ==
    /\ task[t].at = "hset_publish"
    /\ dash.guards = {}
    /\ dash' = [dash EXCEPT !.outer = Insert(@, HashKey, task[t].arc)]
    /\ task' = [task EXCEPT ![t].at = "hset_insert"]
    /\ UNCHANGED beside

\* hash_map.insert(field, serialized) and Ok(()) (local_cache.rs:213-215)
HsetInsert(t) ==
    /\ task[t].at = "hset_insert"
    /\ dash' = [dash EXCEPT !.heap[task[t].arc] = Insert(@, task[t].field, task[t].value)]
    /\ task' = [task EXCEPT ![t].at = "returned", ![t].result = OkUnit]
    /\ UNCHANGED beside

\* task t calls hdel(HashKey, SeedField)
HdelCall(t) ==
    /\ task[t].at = "idle"
    /\ task' = [task EXCEPT ![t] =
                   [NoTask EXCEPT !.at = "hdel_lookup", !.name = "hdel",
                                  !.field = SeedField]]
    /\ UNCHANGED <<beside, dash>>

\* self.hash_cache.get(key) (local_cache.rs:235): the guard it returns is held
\* to the end of the `if let` block
HdelLookup(t) ==
    /\ task[t].at = "hdel_lookup"
    /\ IF HashKey \in DOMAIN dash.outer
       THEN /\ task' = [task EXCEPT ![t].arc = dash.outer[HashKey],
                                    ![t].at = "hdel_remove"]
            /\ dash' = [dash EXCEPT !.guards = @ \cup {t}]
       ELSE /\ task' = [task EXCEPT ![t].at = "returned", ![t].result = OkUnit]
            /\ dash' = dash
    /\ UNCHANGED beside

\* hash_map.remove(field) (local_cache.rs:236)
HdelRemove(t) ==
    /\ task[t].at = "hdel_remove"
    /\ dash' = [dash EXCEPT !.heap[task[t].arc] = Remove(@, task[t].field)]
    /\ task' = [task EXCEPT ![t].at = "hdel_is_empty"]
    /\ UNCHANGED beside

\* hash_map.is_empty() (local_cache.rs:239): if not, the guard is dropped and
\* the call returns; if so, self.hash_cache.remove(key) (line 240) waits for
\* the write lock of the outer map, which the guard of this task keeps taken
HdelIsEmpty(t) ==
    /\ task[t].at = "hdel_is_empty"
    /\ IF DOMAIN dash.heap[task[t].arc] = {}
       THEN /\ task' = [task EXCEPT ![t].at = "hdel_blocked", ![t].result = Pending]
            /\ dash' = dash
       ELSE /\ task' = [task EXCEPT ![t].at = "returned", ![t].result = OkUnit]
            /\ dash' = [dash EXCEPT !.guards = @ \ {t}]
    /\ UNCHANGED beside

\* every task makes one hset or hdel call on the key, on a new key or after
\* an earlier hset, and every step of a call interleaves with the others
NextHash ==
    \/ Seed
    \/ \E t \in Tasks :
          \/ HsetCall(t)
          \/ HsetLookup(t)
          \/ HsetPublish(t)
          \/ HsetInsert(t)
          \/ HdelCall(t)
          \/ HdelLookup(t)
          \/ HdelRemove(t)
          \/ HdelIsEmpty(t)

SpecHash == InitWith({}) /\ [][NextHash]_vars

\* every task made its call and the call returned Ok
AllReturnedOk == \A t \in Tasks : task[t].at = "returned" /\ task[t].result = OkUnit

\* C33: concurrent hset and hdel calls on one key of a LocalCache need no
\* lock of the callers: once all of them have returned Ok, every field that
\* an hset wrote is there with its value (hexists is true, hget finds the
\* bytes), whether the key was new or held another field that an hdel removed.
C33_NoAcknowledgedWriteLost ==
    AllReturnedOk =>
        \A t \in Tasks :
            task[t].name = "hset" =>
                /\ LocalCache_hexists(View, HashKey, task[t].field) = Ok(TRUE)
                /\ View[HashKey][task[t].field] = task[t].value


\* C34: LocalCache::hdel(k, f) always returns, in particular when f is the
\* last remaining field of k: no call is ever left waiting, inside
\* hash_cache.remove(k), for the lock of the outer map that the call itself
\* still holds through the guard of its lookup.
C34_HdelAlwaysReturns ==
    \A t \in Tasks :
        task[t].name = "hdel" =>
            ~(task[t].at = "hdel_blocked" /\ t \in dash.guards)

(* ---------------- LocalCache: concurrent counter calls ---------------- *)

\* the key the tasks count on
CounterKey == "k1"

\* what the counter calls leave alone
aside == <<regs, hash_cache, redis, redis_hash, multi, logged, time, dash, mgr>>

\* incr(CounterKey) or decr(CounterKey) made and returned while no task is
\* inside a call
CountAlone ==
    /\ \A t \in Tasks : task[t].at = "idle"
    /\ \E delta \in {1, 0 - 1} :
          LET o == LocalCache_incr(cache, CounterKey, delta) IN
          /\ InCountRange(o.result)
          /\ cache' = o.cache
          /\ op' = Call(IF delta = 1 THEN "local.incr" ELSE "local.decr",
                        CounterKey, "-", "-", None, TRUE, o.result, <<>>)
    /\ UNCHANGED <<aside, task>>

\* task t calls incr(CounterKey)
IncrCall(t) ==
    /\ task[t].at = "idle"
    /\ task' = [task EXCEPT ![t] = [NoTask EXCEPT !.at = "counter_get", !.name = "incr"]]
    /\ UNCHANGED <<aside, cache, op>>

\* task t calls decr(CounterKey)
DecrCall(t) ==
    /\ task[t].at = "idle"
    /\ task' = [task EXCEPT ![t] = [NoTask EXCEPT !.at = "counter_get", !.name = "decr"]]
    /\ UNCHANGED <<aside, cache, op>>

\* self.cache.get(key).await and the parse (local_cache.rs:168-175,
\* 184-191): the new value is the stored one plus one (minus one for decr),
\* or 1 (-1) without an entry
CounterGet(t) ==
    /\ task[t].at = "counter_get"
    /\ LET delta == IF task[t].name = "incr" THEN 1 ELSE 0 - 1
           current == IF CounterKey \in DOMAIN cache
                      THEN parse_i64(cache[CounterKey]) ELSE Ok(0) IN
       task' = IF IsErr(current)
               THEN [task EXCEPT ![t].at = "returned", ![t].result = current]
               ELSE [task EXCEPT ![t].at = "counter_insert",
                                 ![t].current = current.value + delta]
    /\ UNCHANGED <<aside, cache, op>>

\* self.cache.insert(key, value.to_string()).await and Ok(value)
\* (local_cache.rs:177-180, 193-196)
CounterInsert(t) ==
    /\ task[t].at = "counter_insert"
    /\ cache' = Insert(cache, CounterKey, i64_to_string(task[t].current))
    /\ task' = [task EXCEPT ![t].at = "returned", ![t].result = Ok(task[t].current)]
    /\ UNCHANGED <<aside, op>>

\* every task makes one incr or decr call on the key, after any number of
\* calls made alone, and every step of a call interleaves with the others
NextIncr ==
    \/ CountAlone
    \/ \E t \in Tasks :
          \/ IncrCall(t)
          \/ DecrCall(t)
          \/ CounterGet(t)
          \/ CounterInsert(t)

SpecIncr == InitWith({}) /\ [][NextIncr]_vars

\* the value of the counter before the tasks called: what the last call made
\* alone returned, 0 without one
Previous == IF op.name \in {"local.incr", "local.decr"} THEN op.result.value ELSE 0

\* C37: when the NumTasks concurrent incr(k) calls have all returned, they
\* returned pairwise distinct values and the counter holds its value from
\* before the calls plus NumTasks, under every interleaving.
C37_NoIncrementLost ==
    (\A t \in Tasks : task[t].name = "incr" /\ task[t].at = "returned") =>
        /\ \A t, u \in Tasks : t # u => task[t].result # task[u].result
        /\ cache[CounterKey] = i64_to_string(Previous + NumTasks)

(* ====================================================================== *)
(* Part 5: tasks get their cache from one cache manager                   *)
(* ====================================================================== *)

\* the settings a manager is made with: each cache type, a standalone Redis
\* with its url, either fallback policy
ManagerConfigs ==
    {s \in SettingsSet : /\ s.enabled /\ s.local_name = "local"
                         /\ s.connection_type = "Standalone"
                         /\ s.url = "Some" /\ s.hosts = "None"}

\* the key written through a handle
SharedKey == "k1"

\* what the callers of a manager leave alone
apart == <<regs, cache, hash_cache, redis, redis_hash, multi, op, logged, time, dash>>

\* task t holds a cache it got from the manager
HasHandle(t) == mgr.handle[t] # NoHandle

\* the stores the handle h works on: its LocalCache, the Redis server
StoresOf(h) ==
    [cache |-> IF h.local = 0 THEN <<>> ELSE mgr.stores[h.local],
     hash_cache |-> <<>>, redis |-> mgr.server, redis_hash |-> <<>>]

\* the MultiLevelCache behind the handle h
MultiOf(h) ==
    [tag |-> "Multi", redis_cache |-> h.redis_cache,
     is_fallback_mode |-> h.redis_cache = "None"]

\* LocalCacheManager::new, RedisCacheManager::new, MultiLevelCacheManager::new
\* (local_cache.rs:293-298, redis_cache.rs:541-546,
\* multi_level_cache.rs:503-508): the slot is empty
ManagerNew ==
    /\ mgr.config = None
    /\ \A t \in Tasks : task[t].at = "idle"
    /\ \E s \in ManagerConfigs : mgr' = [mgr EXCEPT !.config = s]
    /\ UNCHANGED <<apart, task>>

\* task t calls get_cache on the manager
GetCacheCall(t) ==
    /\ mgr.config # None
    /\ task[t].at = "idle"
    /\ task' = [task EXCEPT ![t] = [NoTask EXCEPT !.at = "get_cache_read",
                                                  !.name = "get_cache"]]
    /\ UNCHANGED <<apart, mgr>>

\* the look at the slot: under the read lock in LocalCacheManager and
\* RedisCacheManager (local_cache.rs:312-317, redis_cache.rs:562-567), the
\* match in MultiLevelCacheManager (multi_level_cache.rs:516-517); a filled
\* slot is cloned and returned
GetCacheRead(t) ==
    /\ task[t].at = "get_cache_read"
    /\ IF mgr.cell # NoHandle
       THEN /\ mgr' = [mgr EXCEPT !.handle[t] = mgr.cell]
            /\ task' = [task EXCEPT ![t].at = "returned", ![t].result = OkUnit]
       ELSE /\ mgr' = mgr
            /\ task' = [task EXCEPT ![t].at =
                           IF mgr.config.cache_type = "Multi"
                           THEN "get_cache_new" ELSE "get_cache_write"]
    /\ UNCHANGED apart

\* LocalCacheManager / RedisCacheManager, under the write lock
\* (local_cache.rs:320-328, redis_cache.rs:570-578): an empty slot is filled
\* with a new backend, unless RedisCache::new fails; a filled one is cloned
GetCacheWrite(t) ==
    /\ task[t].at = "get_cache_write"
    /\ \E up \in BOOLEAN :
          IF mgr.cell # NoHandle
          THEN /\ mgr' = [mgr EXCEPT !.handle[t] = mgr.cell]
               /\ task' = [task EXCEPT ![t].at = "returned", ![t].result = OkUnit]
          ELSE IF mgr.config.cache_type = "Local"
          THEN LET new_cache == [local |-> Len(mgr.stores) + 1, redis_cache |-> "None"] IN
               /\ mgr' = [mgr EXCEPT !.stores = Append(@, <<>>),
                                     !.cell = new_cache,
                                     !.handle[t] = new_cache,
                                     !.constructed = @ + 1]
               /\ task' = [task EXCEPT ![t].at = "returned", ![t].result = OkUnit]
          ELSE LET r == RedisCache_new(mgr.config, up)
                   new_cache == [local |-> 0, redis_cache |-> "Some"] IN
               IF IsErr(r)
               THEN /\ mgr' = mgr
                    /\ task' = [task EXCEPT ![t].at = "returned", ![t].result = r]
               ELSE /\ mgr' = [mgr EXCEPT !.cell = new_cache,
                                          !.handle[t] = new_cache,
                                          !.constructed = @ + 1]
                    /\ task' = [task EXCEPT ![t].at = "returned", ![t].result = OkUnit]
    /\ UNCHANGED apart

\* MultiLevelCacheManager, the None arm (multi_level_cache.rs:518-521):
\* MultiLevelCache::new makes a LocalCache and connects to Redis; the new
\* cache is returned, the slot is left as it is
GetCacheNew(t) ==
    /\ task[t].at = "get_cache_new"
    /\ \E up \in BOOLEAN :
          LET r == MultiLevelCache_new(mgr.config, up) IN
          IF IsErr(r)
          THEN /\ mgr' = mgr
               /\ task' = [task EXCEPT ![t].at = "returned", ![t].result = r]
          ELSE /\ mgr' = [mgr EXCEPT !.stores = Append(@, <<>>),
                                     !.handle[t] = [local |-> Len(mgr.stores) + 1,
                                                    redis_cache |-> r.redis_cache],
                                     !.constructed = @ + 1]
               /\ task' = [task EXCEPT ![t].at = "returned", ![t].result = OkUnit]
    /\ UNCHANGED apart

\* set(SharedKey, v) through the handle h
HandleSetOutcome(h, up, v) ==
    CASE mgr.config.cache_type = "Local" ->
            LET l == LocalCache_set(mgr.stores[h.local], SharedKey, v) IN
            [stores |-> [mgr.stores EXCEPT ![h.local] = l.cache],
             server |-> mgr.server, result |-> l.result]
      [] mgr.config.cache_type = "Redis" ->
            LET r == RedisCache_set(mgr.server, <<>>, up, SharedKey, v) IN
            [stores |-> mgr.stores, server |-> r.redis, result |-> r.result]
      [] OTHER ->
            LET o == MultiLevelCache_set(MultiOf(h), StoresOf(h), up, SharedKey, v) IN
            [stores |-> [mgr.stores EXCEPT ![h.local] = o.cache],
             server |-> o.redis, result |-> o.result]

\* get::<T>(SharedKey) through the handle h, Redis answering
HandleGet(h, T) ==
    CASE mgr.config.cache_type = "Local" ->
            LocalCache_get(mgr.stores[h.local], T, SharedKey)
      [] mgr.config.cache_type = "Redis" ->
            RedisCache_get(mgr.server, <<>>, TRUE, T, SharedKey)
      [] OTHER ->
            MultiLevelCache_get(MultiOf(h), StoresOf(h), TRUE, T, SharedKey).result

\* task t writes a value through the cache it got
HandleSet(t) ==
    /\ task[t].at = "returned" /\ task[t].name = "get_cache"
    /\ HasHandle(t)
    /\ mgr.wrote = None
    /\ \E v \in Values, up \in BOOLEAN :
          LET o == HandleSetOutcome(mgr.handle[t], up, v) IN
          mgr' = [mgr EXCEPT !.stores = o.stores, !.server = o.server,
                             !.wrote = IF IsErr(o.result) THEN None
                                       ELSE [tag |-> "Some", by |-> t, value |-> v]]
    /\ UNCHANGED <<apart, task>>

\* every task gets its cache from the one manager, the calls interleave, and
\* one of the tasks writes through its cache
NextManager ==
    \/ ManagerNew
    \/ \E t \in Tasks :
          \/ GetCacheCall(t)
          \/ GetCacheRead(t)
          \/ GetCacheWrite(t)
          \/ GetCacheNew(t)
          \/ HandleSet(t)

SpecManager == InitWith({}) /\ [][NextManager]_vars

\* C38: the handles one manager returned share one store: the manager
\* constructed its backend at most once, and a value written through one
\* handle is read through every handle of the manager; for LocalCacheManager,
\* RedisCacheManager and MultiLevelCacheManager alike.
C38_HandlesShareOneStore ==
    /\ mgr.constructed <= 1
    /\ mgr.wrote # None =>
          \A u \in Tasks :
              HasHandle(u) =>
                  HandleGet(mgr.handle[u], mgr.wrote.value.type) = Some(mgr.wrote.value)

====
